---- MODULE Spec2Model ----
(***************************************************************************)
(* Model of the chat server of docker-chat-app: the socket.io event        *)
(* handlers of server/src/index.ts (join, message, typing, stop-typing,    *)
(* disconnect) and the message store of server/src/database.ts.            *)
(*                                                                         *)
(* Node runs every handler to its next await without interruption, so each *)
(* synchronous segment of a handler is one action, and the continuation    *)
(* after an await is a pending task that a later action resumes.           *)
(***************************************************************************)
EXTENDS Integers, Sequences, FiniteSets

(***************************************************************************)
(* Strings.  A string is kept run-length encoded: a sequence of runs       *)
(* [c |-> character, n |-> repetitions], n >= 1, adjacent runs differing   *)
(* in c.  The empty string is the empty sequence.                          *)
(***************************************************************************)
Run(c, n) == [c |-> c, n |-> n]

\* the value `undefined` of JavaScript (an absent field): no string has a run of length 0
Undefined == << Run("undefined", 0) >>

RECURSIVE StrLen(_)
StrLen(str) == IF str = << >> THEN 0 ELSE Head(str).n + StrLen(Tail(str))

WhiteSpace == {" ", "\t", "\n"}

RECURSIVE TrimStart(_)
TrimStart(str) ==
    IF str = << >> THEN << >>
    ELSE IF Head(str).c \in WhiteSpace THEN TrimStart(Tail(str))
    ELSE str

RECURSIVE TrimEnd(_)
TrimEnd(str) ==
    IF str = << >> THEN << >>
    ELSE IF str[Len(str)].c \in WhiteSpace THEN TrimEnd(SubSeq(str, 1, Len(str) - 1))
    ELSE str

\* String.prototype.trim
Trim(str) == TrimEnd(TrimStart(str))

\* a comparison with the empty string in place of the truthiness test
FalsyEmptyOnly(v) == v = << >>

\* JavaScript truthiness of a string-or-undefined value
Falsy(v) == v = Undefined \/ v = << >>

\* the character class [a-zA-Z0-9_-]
UsernameChars ==
    {"a", "b", "c", "d", "e", "f", "g", "h", "i", "j", "k", "l", "m",
     "n", "o", "p", "q", "r", "s", "t", "u", "v", "w", "x", "y", "z",
     "A", "B", "C", "D", "E", "F", "G", "H", "I", "J", "K", "L", "M",
     "N", "O", "P", "Q", "R", "S", "T", "U", "V", "W", "X", "Y", "Z",
     "0", "1", "2", "3", "4", "5", "6", "7", "8", "9", "_", "-"}

\* a pattern that accepts every non-empty string
UsernameRegexAny(str) == str # << >>

\* /^[a-zA-Z0-9_-]+$/.test(username)
UsernameRegexTest(str) ==
    /\ str # << >>
    /\ \A i \in 1..Len(str) : str[i].c \in UsernameChars

MaxUsernameLength == 20
MaxMessageLength == 500
HistoryLimit == 50
RecentLimit == 100

(***************************************************************************)
(* Bounds of the model.                                                    *)
(***************************************************************************)
NumSessions == 2
MaxMsgs == 1
MaxPending == 2

Sessions == 1..NumSessions

(***************************************************************************)
(* Payloads the clients send.                                              *)
(***************************************************************************)
Alice == << Run("a", 2) >>
Bob == << Run("b", 1), Run("_", 1), Run("1", 1) >>
Hi == << Run("h", 2) >>
Blank == << Run(" ", 3) >>

JoinPayloads == {Alice, Bob, << >>}
MessageUsernames == {Alice, Bob, Undefined}
MessageBodies == {Hi, Blank}

(***************************************************************************)
(* State.                                                                  *)
(***************************************************************************)
VARIABLES
    conn,        \* conn[s]: "open" while the socket is connected, then "closed"
    username,    \* username[s]: socket.data.username, Undefined until a join binds it
    activeUsers, \* the process-wide Set of active usernames
    room,        \* the sockets in room 'general'
    tasks,       \* handler continuations suspended at an await
    store,       \* the rows of table messages, in insertion order
    recvMsgs,    \* recvMsgs[s]: ids of the 'message' events delivered to s, in order
    emitted,     \* the events the last step emitted, in order, each with its recipients
    typingUsers, \* typingUsers[c]: chatState.typingUsers of the client of session c
    typingTimers, \* typingTimers[c]: the usernames whose 3-second timers run in client c, oldest first
    typingTimeout, \* typingTimeout[c]: typingTimeoutRef of client c: "none", "pending" or "stale"
    clientUser,  \* clientUser[c]: chatState.username of client c, Undefined while not logged in
    clientMessages, \* clientMessages[c]: the ids of the persisted messages in chatState.messages of client c
    hook,        \* one useSocket instance: socketRef, the sockets it has created, what it has sent
    proc,        \* the server process: startServer, the HTTP server, the signal handlers
    dbCalls,     \* dbCalls[i]: a call of a method of Database under way, its position and outcome
    poolOut      \* poolOut[p]: the clients of the pool of server process p that are checked out

vars == << conn, username, activeUsers, room, tasks, store, recvMsgs, emitted,
           typingUsers, typingTimers, typingTimeout, clientUser, clientMessages,
           hook, proc, dbCalls, poolOut >>

\* a step that leaves the typing state of the clients as it is
TypingIdle == UNCHANGED << typingUsers, typingTimers, typingTimeout >>

\* a step that leaves the logins of the clients as they are
LoginIdle == UNCHANGED clientUser

\* a step that leaves the message lists of the clients as they are
MessagesIdle == UNCHANGED clientMessages

\* a step that leaves the useSocket instance, the server process and the pool
\* of the database as they are
ElsewhereIdle == UNCHANGED << hook, proc, dbCalls, poolOut >>

\* a step that leaves the sessions, the presence set and the table as they are
ChatIdle == UNCHANGED << conn, username, activeUsers, room, tasks, store, recvMsgs, emitted >>

\* a step of the chat or of the typing indicators: the rest is as before
RestIdle == LoginIdle /\ MessagesIdle /\ ElsewhereIdle

\* a step of the server alone: the state of the clients is as before
ClientsIdle == TypingIdle /\ RestIdle

MaxSockets == 2
MaxCalls == 2
MaxSignals == 2
MaxEmits == 2
NumServers == 2
MaxDbRows == 2
MaxConns == 2

Sockets == 1..MaxSockets
Calls == 1..MaxCalls
Servers == 1..NumServers

\* useSocket before its first connect()
HookInit == [ref |-> 0, socks |-> [i \in Sockets |-> "unborn"], sent |-> [i \in Sockets |-> 0],
             status |-> "disconnected", emits |-> 0]

\* the server process when startServer() is called: await db.connect() is
\* pending, the HTTP server exists and does not listen
ProcStart == [phase |-> "connecting", connected |-> FALSE, initialized |-> FALSE, http |-> "idle",
              conns |-> 0, accepted |-> 0, signals |-> << >>, closeCbs |-> 0, closeEvents |-> 0,
              dbClose |-> "none", exit |-> "running"]

\* the server process once it listens
ProcUp == [phase |-> "started", connected |-> TRUE, initialized |-> TRUE, http |-> "listening",
           conns |-> 0, accepted |-> 0, signals |-> << >>, closeCbs |-> 0, closeEvents |-> 0,
           dbClose |-> "none", exit |-> "running"]

\* no method of Database is being called
DbCallIdle == [method |-> "none", owner |-> 0, pc |-> "idle", left |-> 0, at |-> "idle",
               acquired |-> 0, released |-> 0, outcome |-> "none"]

\* the server is up, the hook has no socket, the pool is not in use
ElsewhereInit ==
    /\ hook = HookInit
    /\ proc = ProcUp
    /\ dbCalls = [i \in Calls |-> DbCallIdle]
    /\ poolOut = [p \in Servers |-> 0]

\* the clients when their page has just loaded
ClientsInit ==
    /\ typingUsers = [c \in Sessions |-> {}]
    /\ typingTimers = [c \in Sessions |-> << >>]
    /\ typingTimeout = [c \in Sessions |-> "none"]
    /\ clientUser = [c \in Sessions |-> username[c]]
    /\ clientMessages = [c \in Sessions |->
                           IF username[c] = Undefined THEN << >>
                           ELSE [i \in 1..Len(store) |-> store[i].id]]

\* a row of table messages (server/init.sql, Database.initializeTables)
Row(id, u, m, ts) == [id |-> id, username |-> u, message |-> m, ts |-> ts, room |-> "general"]
NoRow == Row(0, << >>, << >>, 0)

System == << Run("S", 1), Run("y", 1), Run("s", 1), Run("t", 1), Run("e", 1), Run("m", 1) >>
Welcome == << Run("W", 1) >>

\* server -> client events (ServerToClientEvents), all of one record shape
Event(type, text, name, users, msg, hist) ==
    [type |-> type, text |-> text, name |-> name, users |-> users, msg |-> msg, hist |-> hist]
ErrorEv(text) == Event("error", text, << >>, {}, NoRow, << >>)
UserJoinedEv(u) == Event("user-joined", "", u, {}, NoRow, << >>)
UserLeftEv(u) == Event("user-left", "", u, {}, NoRow, << >>)
ActiveUsersEv(users) == Event("active-users", "", << >>, users, NoRow, << >>)
ChatHistoryEv(hist) == Event("chat-history", "", << >>, {}, NoRow, hist)
MessageEvNoId(row) == Event("message", "", << >>, {}, [row EXCEPT !.id = 0], << >>)
MessageEv(row) == Event("message", "", << >>, {}, row, << >>)
TypingEv(u) == Event("typing", "", u, {}, NoRow, << >>)
StopTypingEv(u) == Event("stop-typing", "", u, {}, NoRow, << >>)

\* one emission: an event and the sessions it is delivered to
Emission(to, ev) == [to |-> to, ev |-> ev]

\* io.to('general').emit in place of socket.emit
ToRoomInstead(s) == room

\* socket.emit: to this socket, if it is still connected
ToSocket(s) == IF conn[s] = "open" THEN {s} ELSE {}
\* io.to('general') in place of socket.to('general')
ToOthersAndSelf(s) == room

\* socket.to('general'): the members of the room other than this socket
ToOthers(s) == room \ {s}
\* io.emit in place of io.to('general').emit: every connected socket
ToAllSockets == { s \in Sessions : conn[s] = "open" }

\* io.to('general'): every member of the room
ToRoom == room

\* a suspended continuation, all of one record shape
Task(k, s, u, body, row, hist) ==
    [k |-> k, s |-> s, u |-> u, body |-> body, row |-> row, hist |-> hist]

RECURSIVE MessageIdsFor(_, _)
MessageIdsFor(s, ems) ==
    IF ems = << >> THEN << >>
    ELSE (IF Head(ems).ev.type = "message" /\ s \in Head(ems).to
          THEN << Head(ems).ev.msg.id >> ELSE << >>) \o MessageIdsFor(s, Tail(ems))

\* the step emits ems, in this order; each recipient's transport keeps the order
Emit(ems) ==
    /\ emitted' = ems
    /\ recvMsgs' = [s \in Sessions |-> recvMsgs[s] \o MessageIdsFor(s, ems)]

Init ==
    /\ conn = [s \in Sessions |-> "open"]
    /\ username = [s \in Sessions |-> Undefined]
    /\ activeUsers = {}
    /\ room = {}
    /\ tasks = {}
    /\ store = << Row(1, System, Welcome, 0) >>
    /\ recvMsgs = [s \in Sessions |-> << >>]
    /\ emitted = << >>
    /\ ClientsInit
    /\ ElsewhereInit

\* the error sent with io.to('general').emit in place of socket.emit
RejectBroadcast(s, text) ==
    /\ Emit(<< Emission(ToRoom, ErrorEv(text)) >>)
    /\ UNCHANGED << conn, username, activeUsers, room, tasks, store >>

\* the handler rejects the event: one error to the sender, nothing else changes
Reject(s, text) ==
    /\ Emit(<< Emission(ToSocket(s), ErrorEv(text)) >>)
    /\ UNCHANGED << conn, username, activeUsers, room, tasks, store >>

\* the membership test always answering no
UsernameTakenNever(u) == FALSE

\* activeUsers.has(username)
UsernameTaken(u) == u \in activeUsers

\* the add left out of the synchronous part of the handler
AddUserForgotten(u) == activeUsers

\* activeUsers.add(username)
AddUser(u) == activeUsers \cup {u}

\* the delete left out of the disconnect handler
DeleteUserForgotten(u) == activeUsers

\* activeUsers.delete(socket.data.username)
DeleteUser(u) == activeUsers \ {u}

\* socket.on('join'), up to `await socket.join('general')`; the default in-memory
\* adapter has added the socket to the room when socket.join returns its promise
Join(s, u) ==
    /\ conn[s] = "open"
    /\ IF Falsy(u) \/ StrLen(Trim(u)) = 0
         THEN Reject(s, "Username is required")
       ELSE IF StrLen(u) > MaxUsernameLength
         THEN Reject(s, "Username must be 20 characters or less")
       ELSE IF ~UsernameRegexTest(u)
         THEN Reject(s, "Username can only contain letters, numbers, hyphens, and underscores")
       ELSE IF UsernameTaken(u)
         THEN Reject(s, "Username is already taken")
       ELSE /\ username' = [username EXCEPT ![s] = u]
            /\ activeUsers' = AddUser(u)
            /\ room' = room \cup {s}
            /\ tasks' = tasks \cup {Task("join-room", s, u, << >>, NoRow, << >>)}
            /\ Emit(<< >>)
            /\ UNCHANGED << conn, store >>

\* the snapshot taken without the joiner's own name
JoinBroadcastStale(t) ==
    /\ t \in tasks /\ t.k = "join-room"
    /\ Emit(<< Emission(ToOthers(t.s), UserJoinedEv(t.u)),
               Emission(ToRoom, ActiveUsersEv(activeUsers \ {t.u})) >>)
    /\ tasks' = (tasks \ {t}) \cup {Task("hist-wait", t.s, t.u, << >>, NoRow, << >>)}
    /\ UNCHANGED << conn, username, activeUsers, room, store >>

\* socket.on('join') after `await socket.join`: user-joined to the others, active-users
\* to the room, then db.getChatHistory is called
JoinBroadcast(t) ==
    /\ t \in tasks /\ t.k = "join-room"
    /\ Emit(<< Emission(ToOthers(t.s), UserJoinedEv(t.u)),
               Emission(ToRoom, ActiveUsersEv(activeUsers)) >>)
    /\ tasks' = (tasks \ {t}) \cup {Task("hist-wait", t.s, t.u, << >>, NoRow, << >>)}
    /\ UNCHANGED << conn, username, activeUsers, room, store >>

\* the orders in which `ORDER BY timestamp DESC` may return rows: any one that is
\* non-increasing in the timestamp (rows of equal timestamp come in any order)
DescByTimestamp(rows) ==
    { p \in [1..Len(rows) -> 1..Len(rows)] :
        /\ \A i, j \in 1..Len(rows) : i # j => p[i] # p[j]
        /\ \A i, j \in 1..Len(rows) : i < j => rows[p[i]].ts >= rows[p[j]].ts }

Min(a, b) == IF a < b THEN a ELSE b

\* Array.prototype.reverse
Reverse(seq) == [i \in 1..Len(seq) |-> seq[Len(seq) + 1 - i]]

\* the result rows of `SELECT ... WHERE room = $1 ORDER BY timestamp DESC LIMIT $2`
\* for the order p
SelectRecent(rows, p, limit) == [i \in 1..Min(limit, Len(rows)) |-> rows[p[i]]]

\* Database.getChatHistory: the query runs against the table as it is now
HistoryRead(t) ==
    /\ t \in tasks /\ t.k = "hist-wait"
    /\ \E p \in DescByTimestamp(store) :
         tasks' = (tasks \ {t}) \cup
                  {Task("hist-done", t.s, t.u, << >>, NoRow,
                        Reverse(SelectRecent(store, p, HistoryLimit)))}
    /\ Emit(<< >>)
    /\ UNCHANGED << conn, username, activeUsers, room, store >>

\* socket.on('join') after `await db.getChatHistory`: chat-history to the joiner
HistoryReturn(t) ==
    /\ t \in tasks /\ t.k = "hist-done"
    /\ Emit(<< Emission(ToSocket(t.s), ChatHistoryEv(t.hist)) >>)
    /\ tasks' = tasks \ {t}
    /\ UNCHANGED << conn, username, activeUsers, room, store >>

\* a catch block that undoes the join
HistoryFailRollback(t) ==
    /\ t \in tasks /\ t.k = "hist-wait"
    /\ Emit(<< Emission(ToSocket(t.s), ErrorEv("Failed to load chat history")) >>)
    /\ tasks' = tasks \ {t}
    /\ activeUsers' = activeUsers \ {t.u}
    /\ username' = [username EXCEPT ![t.s] = Undefined]
    /\ UNCHANGED << conn, room, store >>

\* db.getChatHistory throws (no pool client, or the query fails): the catch block
HistoryFail(t) ==
    /\ t \in tasks /\ t.k = "hist-wait"
    /\ Emit(<< Emission(ToSocket(t.s), ErrorEv("Failed to load chat history")) >>)
    /\ tasks' = tasks \ {t}
    /\ UNCHANGED << conn, username, activeUsers, room, store >>

SaveTasks == { t \in tasks : t.k \in {"save-wait", "save-begun", "save-done"} }

\* the sends accepted so far: the rows written after the welcome row and the saves
\* still under way
AcceptedSends == (Len(store) - 1) + Cardinality({ t \in SaveTasks : t.k # "save-done" })

\* the handler that saves the body as it came, white space included
MessageUntrimmed(s, u, m) ==
    /\ conn[s] = "open"
    /\ IF Falsy(u) \/ Falsy(m) \/ Falsy(username[s])
         THEN Reject(s, "Invalid message data")
       ELSE IF u # username[s]
         THEN Reject(s, "Username mismatch")
       ELSE IF StrLen(Trim(m)) = 0
         THEN /\ Emit(<< >>)
              /\ UNCHANGED << conn, username, activeUsers, room, tasks, store >>
       ELSE IF StrLen(m) > MaxMessageLength
         THEN Reject(s, "Message too long (max 500 characters)")
       ELSE /\ Task("save-wait", s, u, m, NoRow, << >>) \notin tasks
            /\ tasks' = tasks \cup {Task("save-wait", s, u, m, NoRow, << >>)}
            /\ Emit(<< >>)
            /\ UNCHANGED << conn, username, activeUsers, room, store >>

\* socket.on('message'), up to `await db.saveMessage`
Message(s, u, m) ==
    /\ conn[s] = "open"
    /\ IF Falsy(u) \/ Falsy(m) \/ Falsy(username[s])
         THEN Reject(s, "Invalid message data")
       ELSE IF u # username[s]
         THEN Reject(s, "Username mismatch")
       ELSE IF StrLen(Trim(m)) = 0
         THEN /\ Emit(<< >>)
              /\ UNCHANGED << conn, username, activeUsers, room, tasks, store >>
       ELSE IF StrLen(m) > MaxMessageLength
         THEN Reject(s, "Message too long (max 500 characters)")
       ELSE /\ Task("save-wait", s, u, Trim(m), NoRow, << >>) \notin tasks
            /\ tasks' = tasks \cup {Task("save-wait", s, u, Trim(m), NoRow, << >>)}
            /\ Emit(<< >>)
            /\ UNCHANGED << conn, username, activeUsers, room, store >>

\* the latest reading of the database clock that any row or running insert has taken
LatestTimestamp ==
    LET seen == { store[i].ts : i \in 1..Len(store) } \cup { t.row.ts : t \in SaveTasks }
    IN  CHOOSE x \in seen : \A y \in seen : y <= x

\* the readings the database clock may give now: it never runs backwards, and two
\* statements may read the same instant
ClockReadings == {LatestTimestamp, LatestTimestamp + 1}

\* a save under the name that is bound to the socket when the INSERT starts
SaveBeginBoundName(t, ts) ==
    /\ t \in tasks /\ t.k = "save-wait"
    /\ Task("save-begun", t.s, username[t.s], t.body, Row(0, username[t.s], t.body, ts), << >>)
          \notin tasks
    /\ tasks' = (tasks \ {t}) \cup
                {Task("save-begun", t.s, username[t.s], t.body,
                      Row(0, username[t.s], t.body, ts), << >>)}
    /\ Emit(<< >>)
    /\ UNCHANGED << conn, username, activeUsers, room, store >>

\* Database.saveMessage: the INSERT starts on its pool client; the row's DEFAULT
\* CURRENT_TIMESTAMP is the reading ts of the clock
SaveBegin(t, ts) ==
    /\ t \in tasks /\ t.k = "save-wait"
    /\ Task("save-begun", t.s, t.u, t.body, Row(0, t.u, t.body, ts), << >>) \notin tasks
    /\ tasks' = (tasks \ {t}) \cup
                {Task("save-begun", t.s, t.u, t.body, Row(0, t.u, t.body, ts), << >>)}
    /\ Emit(<< >>)
    /\ UNCHANGED << conn, username, activeUsers, room, store >>

\* the id column is SERIAL: the next value of the sequence
NextId == store[Len(store)].id + 1

\* an INSERT that does not advance the sequence of the id column
SaveInsertNoSequence(t) ==
    /\ t \in tasks /\ t.k = "save-begun"
    /\ store' = Append(store, Row(store[Len(store)].id, t.u, t.body, t.row.ts))
    /\ tasks' = (tasks \ {t}) \cup
                {Task("save-done", t.s, t.u, t.body,
                      Row(store[Len(store)].id, t.u, t.body, t.row.ts), << >>)}
    /\ Emit(<< >>)
    /\ UNCHANGED << conn, username, activeUsers, room >>

\* Database.saveMessage: the INSERT takes its id and appends the row
SaveInsert(t) ==
    /\ t \in tasks /\ t.k = "save-begun"
    /\ store' = Append(store, Row(NextId, t.u, t.body, t.row.ts))
    /\ tasks' = (tasks \ {t}) \cup
                {Task("save-done", t.s, t.u, t.body, Row(NextId, t.u, t.body, t.row.ts), << >>)}
    /\ Emit(<< >>)
    /\ UNCHANGED << conn, username, activeUsers, room >>

\* the broadcast skipped when the sender's socket has disconnected meanwhile
SaveReturnUnlessGone(t) ==
    /\ t \in tasks /\ t.k = "save-done"
    /\ IF conn[t.s] = "open"
         THEN Emit(<< Emission(ToRoom, MessageEv(t.row)) >>)
         ELSE Emit(<< >>)
    /\ tasks' = tasks \ {t}
    /\ UNCHANGED << conn, username, activeUsers, room, store >>

\* socket.on('message') after `await db.saveMessage`: the saved message to the room
SaveReturn(t) ==
    /\ t \in tasks /\ t.k = "save-done"
    /\ Emit(<< Emission(ToRoom, MessageEv(t.row)) >>)
    /\ tasks' = tasks \ {t}
    /\ UNCHANGED << conn, username, activeUsers, room, store >>

\* the catch block that reports the failure and then runs the save again
SaveFailRetry(t) ==
    /\ t \in tasks /\ t.k \in {"save-wait", "save-begun", "save-done"}
    /\ Emit(<< Emission(ToSocket(t.s), ErrorEv("Failed to send message")) >>)
    /\ tasks' = (tasks \ {t}) \cup {Task("save-wait", t.s, t.u, t.body, NoRow, << >>)}
    /\ UNCHANGED << conn, username, activeUsers, room, store >>

\* db.saveMessage throws (no pool client, the INSERT fails, or the connection is
\* lost before the result of the INSERT arrives): the catch block
SaveFail(t) ==
    /\ t \in tasks /\ t.k \in {"save-wait", "save-begun", "save-done"}
    /\ Emit(<< Emission(ToSocket(t.s), ErrorEv("Failed to send message")) >>)
    /\ tasks' = tasks \ {t}
    /\ UNCHANGED << conn, username, activeUsers, room, store >>

\* the relay without the test of socket.data.username
TypingUnchecked(s, u) ==
    /\ conn[s] = "open"
    /\ Emit(<< Emission(ToOthers(s), TypingEv(u)) >>)
    /\ UNCHANGED << conn, username, activeUsers, room, tasks, store >>

\* socket.on('typing')
Typing(s, u) ==
    /\ conn[s] = "open"
    /\ IF ~Falsy(username[s]) /\ u = username[s]
         THEN Emit(<< Emission(ToOthers(s), TypingEv(u)) >>)
         ELSE Emit(<< >>)
    /\ UNCHANGED << conn, username, activeUsers, room, tasks, store >>

\* socket.on('stop-typing')
StopTyping(s, u) ==
    /\ conn[s] = "open"
    /\ IF ~Falsy(username[s]) /\ u = username[s]
         THEN Emit(<< Emission(ToOthers(s), StopTypingEv(u)) >>)
         ELSE Emit(<< >>)
    /\ UNCHANGED << conn, username, activeUsers, room, tasks, store >>

\* a disconnect handler that runs again for a socket that is already closed
DisconnectAlways(s) ==
    /\ conn' = [conn EXCEPT ![s] = "closed"]
    /\ room' = room \ {s}
    /\ IF ~Falsy(username[s])
         THEN /\ activeUsers' = DeleteUser(username[s])
              /\ Emit(<< Emission(room \ {s}, UserLeftEv(username[s])),
                         Emission(room \ {s}, ActiveUsersEv(DeleteUser(username[s]))) >>)
         ELSE /\ activeUsers' = activeUsers
              /\ Emit(<< >>)
    /\ UNCHANGED << username, tasks, store >>

\* socket.on('disconnect'): socket.io emits 'disconnect' once for a socket, and has
\* taken the socket out of its rooms before it does
Disconnect(s) ==
    /\ conn[s] = "open"
    /\ conn' = [conn EXCEPT ![s] = "closed"]
    /\ room' = room \ {s}
    /\ IF ~Falsy(username[s])
         THEN /\ activeUsers' = DeleteUser(username[s])
              /\ Emit(<< Emission(room \ {s}, UserLeftEv(username[s])),
                         Emission(room \ {s}, ActiveUsersEv(DeleteUser(username[s]))) >>)
         ELSE /\ activeUsers' = activeUsers
              /\ Emit(<< >>)
    /\ UNCHANGED << username, tasks, store >>

\* the bounds of the model: a step that would start one send or one suspended
\* continuation too many is left out
Bounded(maxMsgs, maxPending) ==
    /\ AcceptedSends' <= maxMsgs
    /\ Cardinality(tasks') <= maxPending

\* the database clock is read at most as far as one tick for each send
ClockBounded(maxMsgs) == LatestTimestamp' <= maxMsgs

Next ==
    \/ \E s \in Sessions, u \in JoinPayloads : Join(s, u) /\ Bounded(MaxMsgs, MaxPending) /\ ClientsIdle
    \/ \E t \in tasks : JoinBroadcast(t) /\ ClientsIdle
    \/ \E t \in tasks : HistoryRead(t) /\ ClientsIdle
    \/ \E t \in tasks : HistoryReturn(t) /\ ClientsIdle
    \/ \E t \in tasks : HistoryFail(t) /\ ClientsIdle
    \/ \E s \in Sessions, u \in MessageUsernames, m \in MessageBodies :
          Message(s, u, m) /\ Bounded(MaxMsgs, MaxPending) /\ ClientsIdle
    \/ \E t \in tasks, ts \in ClockReadings : SaveBegin(t, ts) /\ ClockBounded(MaxMsgs) /\ ClientsIdle
    \/ \E t \in tasks : SaveInsert(t) /\ ClientsIdle
    \/ \E t \in tasks : SaveReturn(t) /\ ClientsIdle
    \/ \E t \in tasks : SaveFail(t) /\ ClientsIdle
    \/ \E s \in Sessions, u \in MessageUsernames : Typing(s, u) /\ ClientsIdle
    \/ \E s \in Sessions, u \in MessageUsernames : StopTyping(s, u) /\ ClientsIdle
    \/ \E s \in Sessions : Disconnect(s) /\ ClientsIdle

Spec == Init /\ [][Next]_vars

(***************************************************************************)
(* The chat among sessions that have joined: the state once the first      *)
(* sessions have each joined under a name of their own and received their  *)
(* history, and from there the sends, the saves and the disconnects, with  *)
(* the database clock advancing between any two inserts.                   *)
(***************************************************************************)
MaxChatMsgs == 2

ChatNames == << Alice, Bob >>

\* the first k sessions have joined, k = 1 or 2
InitChat ==
    \E k \in 1..Len(ChatNames) :
        /\ k <= NumSessions
        /\ conn = [s \in Sessions |-> "open"]
        /\ username = [s \in Sessions |-> IF s <= k THEN ChatNames[s] ELSE Undefined]
        /\ activeUsers = { ChatNames[s] : s \in 1..k }
        /\ room = 1..k
        /\ tasks = {}
        /\ store = << Row(1, System, Welcome, 0) >>
        /\ recvMsgs = [s \in Sessions |-> << >>]
        /\ emitted = << >>
        /\ ClientsInit
        /\ ElsewhereInit

NextChat ==
    \/ \E s \in Sessions, u \in MessageUsernames, m \in MessageBodies :
          Message(s, u, m) /\ Bounded(MaxChatMsgs, MaxPending) /\ ClientsIdle
    \/ \E t \in tasks : SaveBegin(t, LatestTimestamp + 1) /\ ClockBounded(MaxChatMsgs) /\ ClientsIdle
    \/ \E t \in tasks : SaveInsert(t) /\ ClientsIdle
    \/ \E t \in tasks : SaveReturn(t) /\ ClientsIdle
    \/ \E t \in tasks : SaveFail(t) /\ ClientsIdle
    \/ \E s \in Sessions : Disconnect(s) /\ ClientsIdle

SpecChat == InitChat /\ [][NextChat]_vars

(***************************************************************************)
(* The join and disconnect handlers alone, on the usernames a client may    *)
(* send, well-formed or not.                                               *)
(***************************************************************************)
Rep(c, n) == << Run(c, n) >>
Chars(cs) == [i \in 1..Len(cs) |-> Run(cs[i], 1)]

TwentyAs == Rep("a", 20)
TwentyOneAs == Rep("a", 21)
BadName == Chars(<< "b", "a", "d", " ", "n", "a", "m", "e", "!" >>)
ValidUser == Chars(<< "v", "a", "l", "i", "d", "_", "1", "-", "U", "s", "e", "r" >>)
TrailingNewline == Chars(<< "a", "\n" >>)
LongBad == << Run("a", 20), Run("!", 1) >>

UsernamePayloads ==
    {<< >>, Undefined, Blank, TwentyAs, TwentyOneAs, BadName, ValidUser,
     TrailingNewline, LongBad}

NextJoin ==
    \/ \E s \in Sessions, u \in UsernamePayloads : Join(s, u) /\ Bounded(MaxMsgs, MaxPending) /\ ClientsIdle
    \/ \E t \in tasks : JoinBroadcast(t) /\ ClientsIdle
    \/ \E t \in tasks : HistoryRead(t) /\ ClientsIdle
    \/ \E t \in tasks : HistoryReturn(t) /\ ClientsIdle
    \/ \E t \in tasks : HistoryFail(t) /\ ClientsIdle
    \/ \E s \in Sessions : Disconnect(s) /\ ClientsIdle

SpecJoin == Init /\ [][NextJoin]_vars

(***************************************************************************)
(* The history a joiner is sent: the chat among the sessions that have     *)
(* joined, and the joins of the sessions that have not, while it goes on.  *)
(***************************************************************************)
NextHistory ==
    \/ \E s \in Sessions, u \in JoinPayloads :
          username[s] = Undefined /\ Join(s, u) /\ Bounded(MaxChatMsgs, MaxPending) /\ ClientsIdle
    \/ \E t \in tasks : JoinBroadcast(t) /\ ClientsIdle
    \/ \E t \in tasks : HistoryRead(t) /\ ClientsIdle
    \/ \E t \in tasks : HistoryReturn(t) /\ ClientsIdle
    \/ \E t \in tasks : HistoryFail(t) /\ ClientsIdle
    \/ \E s \in Sessions, u \in MessageUsernames, m \in MessageBodies :
          Message(s, u, m) /\ Bounded(MaxChatMsgs, MaxPending) /\ ClientsIdle
    \/ \E t \in tasks : SaveBegin(t, LatestTimestamp + 1) /\ ClockBounded(MaxChatMsgs) /\ ClientsIdle
    \/ \E t \in tasks : SaveInsert(t) /\ ClientsIdle
    \/ \E t \in tasks : SaveReturn(t) /\ ClientsIdle
    \/ \E t \in tasks : SaveFail(t) /\ ClientsIdle
    \/ \E s \in Sessions : Disconnect(s) /\ ClientsIdle

SpecHistory == InitChat /\ [][NextHistory]_vars

(***************************************************************************)
(* The message handler on the bodies a client may send, empty, blank, long *)
(* or padded, from sessions that have joined and from sessions that have   *)
(* not, with the joins of the latter.                                      *)
(***************************************************************************)
Exactly500 == Rep("x", 500)
Over500 == Rep("x", 501)
Padded500 == << Run("x", 500), Run(" ", 1) >>
LongBlank == Rep(" ", 600)

SendBodies == {<< >>, LongBlank, Exactly500, Over500, Padded500}

\* the names the sessions that have not joined ask for: none, or the first session's
SendJoinPayloads == {<< >>, Alice}

\* the usernames the message events carry: the first session's, or none
SendUsernames == {Alice, Undefined}

NextSend ==
    \/ \E s \in Sessions, u \in SendJoinPayloads :
          username[s] = Undefined /\ Join(s, u) /\ Bounded(MaxMsgs, MaxPending) /\ ClientsIdle
    \/ \E t \in tasks : JoinBroadcast(t) /\ ClientsIdle
    \/ \E t \in tasks : HistoryRead(t) /\ ClientsIdle
    \/ \E t \in tasks : HistoryReturn(t) /\ ClientsIdle
    \/ \E t \in tasks : HistoryFail(t) /\ ClientsIdle
    \/ \E s \in Sessions, u \in SendUsernames, m \in SendBodies :
          Message(s, u, m) /\ Bounded(MaxMsgs, MaxPending) /\ ClientsIdle
    \/ \E t \in tasks : SaveBegin(t, LatestTimestamp + 1) /\ ClockBounded(MaxMsgs) /\ ClientsIdle
    \/ \E t \in tasks : SaveInsert(t) /\ ClientsIdle
    \/ \E t \in tasks : SaveReturn(t) /\ ClientsIdle
    \/ \E t \in tasks : SaveFail(t) /\ ClientsIdle
    \/ \E s \in Sessions : Disconnect(s) /\ ClientsIdle

SpecSend == InitChat /\ [][NextSend]_vars

(***************************************************************************)
(* The rows the sends write: the chat among the sessions that have joined, *)
(* on bodies with and without white space around them, up to the limit.    *)
(***************************************************************************)
PaddedHi == << Run(" ", 1), Run("h", 2), Run(" ", 1) >>
PaddedTo500 == << Run(" ", 1), Run("x", 498), Run("\n", 1) >>

StoreBodies == {PaddedHi, PaddedTo500, Over500, LongBlank}

NextStore ==
    \/ \E s \in Sessions, u \in SendUsernames, m \in StoreBodies :
          Message(s, u, m) /\ Bounded(MaxChatMsgs, MaxPending) /\ ClientsIdle
    \/ \E t \in tasks : SaveBegin(t, LatestTimestamp + 1) /\ ClockBounded(MaxChatMsgs) /\ ClientsIdle
    \/ \E t \in tasks : SaveInsert(t) /\ ClientsIdle
    \/ \E t \in tasks : SaveReturn(t) /\ ClientsIdle
    \/ \E t \in tasks : SaveFail(t) /\ ClientsIdle
    \/ \E s \in Sessions : Disconnect(s) /\ ClientsIdle

SpecStore == InitChat /\ [][NextStore]_vars

(***************************************************************************)
(* GET /api/messages beside the chat and the joins: the response of the    *)
(* request is recorded in emitted as an event that goes to no socket.      *)
(***************************************************************************)
ApiMessagesEv(rows) == Event("api-messages", "", << >>, {}, NoRow, rows)
ApiErrorEv == Event("api-error", "Internal server error", << >>, {}, NoRow, << >>)

\* Database.getRecentMessages: the result rows of the query, as they come
GetRecentMessages(rows, p, limit) == SelectRecent(rows, p, limit)

\* app.get('/api/messages'): the query runs against the table as it is now and
\* its rows are the body of the response
ApiMessages ==
    /\ \E p \in DescByTimestamp(store) :
         Emit(<< Emission({}, ApiMessagesEv(GetRecentMessages(store, p, RecentLimit))) >>)
    /\ UNCHANGED << conn, username, activeUsers, room, tasks, store >>

\* app.get('/api/messages'): db.getRecentMessages throws, the response is the 500
ApiMessagesFail ==
    /\ Emit(<< Emission({}, ApiErrorEv) >>)
    /\ UNCHANGED << conn, username, activeUsers, room, tasks, store >>

NextApi ==
    \/ \E s \in Sessions, u \in JoinPayloads :
          username[s] = Undefined /\ Join(s, u) /\ Bounded(MaxChatMsgs, MaxPending) /\ ClientsIdle
    \/ \E t \in tasks : JoinBroadcast(t) /\ ClientsIdle
    \/ \E t \in tasks : HistoryRead(t) /\ ClientsIdle
    \/ \E t \in tasks : HistoryReturn(t) /\ ClientsIdle
    \/ \E t \in tasks : HistoryFail(t) /\ ClientsIdle
    \/ \E s \in Sessions, u \in MessageUsernames, m \in MessageBodies :
          Message(s, u, m) /\ Bounded(MaxChatMsgs, MaxPending) /\ ClientsIdle
    \/ \E t \in tasks : SaveBegin(t, LatestTimestamp + 1) /\ ClockBounded(MaxChatMsgs) /\ ClientsIdle
    \/ \E t \in tasks : SaveInsert(t) /\ ClientsIdle
    \/ \E t \in tasks : SaveReturn(t) /\ ClientsIdle
    \/ \E t \in tasks : SaveFail(t) /\ ClientsIdle
    \/ \E s \in Sessions : Disconnect(s) /\ ClientsIdle
    \/ ApiMessages /\ ClientsIdle
    \/ ApiMessagesFail /\ ClientsIdle

SpecApi == InitChat /\ [][NextApi]_vars

(***************************************************************************)
(* The joins of sessions that have not joined yet, each under a name of    *)
(* its choice, in any interleaving, and the disconnects.                   *)
(***************************************************************************)
PresencePayloads == {Alice, Bob, ValidUser, << >>}

NextPresence ==
    \/ \E s \in Sessions, u \in PresencePayloads :
          username[s] = Undefined /\ Join(s, u) /\ Bounded(MaxMsgs, MaxPending) /\ ClientsIdle
    \/ \E t \in tasks : JoinBroadcast(t) /\ ClientsIdle
    \/ \E t \in tasks : HistoryRead(t) /\ ClientsIdle
    \/ \E t \in tasks : HistoryReturn(t) /\ ClientsIdle
    \/ \E t \in tasks : HistoryFail(t) /\ ClientsIdle
    \/ \E s \in Sessions : Disconnect(s) /\ ClientsIdle

SpecPresence == Init /\ [][NextPresence]_vars

(***************************************************************************)
(* The typing indicators. The server only relays typing and stop-typing;   *)
(* the state is the clients': the listeners of page.tsx mark a user as     *)
(* typing and start a 3-second timer that unmarks it, the emitters send    *)
(* typing at a keystroke and stop-typing a second after the last one.      *)
(* Timers of equal delay fire in the order in which they were started.     *)
(***************************************************************************)
MaxTimers == 2

\* the listeners handleTyping and handleStopTyping: typingUsers of client c after ev
TypingUsersAfter(c, users, ev) ==
    IF ev.type = "typing" /\ ev.name # username[c] THEN users \cup {ev.name}
    ELSE IF ev.type = "stop-typing" THEN users \ {ev.name}
    ELSE users

\* a listener that starts no timer
TypingTimersForgotten(c, timers, ev) == timers

\* the listener handleTyping: setTimeout(..., 3000) for the user of ev
TypingTimersAfter(c, timers, ev) ==
    IF ev.type = "typing" /\ ev.name # username[c] THEN Append(timers, ev.name)
    ELSE timers

RECURSIVE Received(_, _)
\* the events of ems that are delivered to c, in order
Received(c, ems) ==
    IF ems = << >> THEN << >>
    ELSE (IF c \in Head(ems).to THEN << Head(ems).ev >> ELSE << >>) \o Received(c, Tail(ems))

RECURSIVE TypingUsersAfterAll(_, _, _)
TypingUsersAfterAll(c, users, evs) ==
    IF evs = << >> THEN users
    ELSE TypingUsersAfterAll(c, TypingUsersAfter(c, users, Head(evs)), Tail(evs))

RECURSIVE TypingTimersAfterAll(_, _, _)
TypingTimersAfterAll(c, timers, evs) ==
    IF evs = << >> THEN timers
    ELSE TypingTimersAfterAll(c, TypingTimersAfter(c, timers, Head(evs)), Tail(evs))

\* the clients' listeners run on the events ems that the step emits
ClientsReceive(ems) ==
    /\ typingUsers' = [c \in Sessions |-> TypingUsersAfterAll(c, typingUsers[c], Received(c, ems))]
    /\ typingTimers' = [c \in Sessions |-> TypingTimersAfterAll(c, typingTimers[c], Received(c, ems))]

\* the 3-second timer that client c started first fires: its user is unmarked
ListenerTimerFire(c) ==
    /\ typingTimers[c] # << >>
    /\ typingUsers' = [typingUsers EXCEPT ![c] = @ \ {Head(typingTimers[c])}]
    /\ typingTimers' = [typingTimers EXCEPT ![c] = Tail(@)]
    /\ Emit(<< >>)
    /\ UNCHANGED << conn, username, activeUsers, room, tasks, store, typingTimeout >>

\* the emitter handleTyping of page.tsx, at a keystroke that leaves the input
\* non-empty: typing is sent if the socket is connected (useSocket emit), the
\* 1-second timer is started anew
KeyStroke(c) ==
    /\ username[c] # Undefined
    /\ IF conn[c] = "open"
         THEN Typing(c, username[c]) /\ ClientsReceive(emitted')
         ELSE /\ Emit(<< >>)
              /\ UNCHANGED << conn, username, activeUsers, room, tasks, store,
                              typingUsers, typingTimers >>
    /\ typingTimeout' = [typingTimeout EXCEPT ![c] = "pending"]

\* a timer whose callback sends nothing
EmitterTimerSilent(c) ==
    /\ typingTimeout[c] = "pending"
    /\ Emit(<< >>)
    /\ UNCHANGED << conn, username, activeUsers, room, tasks, store,
                    typingUsers, typingTimers >>
    /\ typingTimeout' = [typingTimeout EXCEPT ![c] = "stale"]

\* the 1-second timer of client c fires: stop-typing is sent if the socket is
\* connected (useSocket emit); typingTimeoutRef keeps the id of the timer
EmitterTimerFire(c) ==
    /\ typingTimeout[c] = "pending"
    /\ IF conn[c] = "open"
         THEN StopTyping(c, username[c]) /\ ClientsReceive(emitted')
         ELSE /\ Emit(<< >>)
              /\ UNCHANGED << conn, username, activeUsers, room, tasks, store,
                              typingUsers, typingTimers >>
    /\ typingTimeout' = [typingTimeout EXCEPT ![c] = "stale"]

\* the emitter handleStopTyping of page.tsx (a message is sent, or the input is
\* emptied): the timer is cleared and stop-typing is sent if the socket is
\* connected
InputStop(c) ==
    /\ username[c] # Undefined
    /\ typingTimeout[c] # "none"
    /\ IF conn[c] = "open"
         THEN StopTyping(c, username[c]) /\ ClientsReceive(emitted')
         ELSE /\ Emit(<< >>)
              /\ UNCHANGED << conn, username, activeUsers, room, tasks, store,
                              typingUsers, typingTimers >>
    /\ typingTimeout' = [typingTimeout EXCEPT ![c] = "stale"]

\* no client has more than MaxTimers 3-second timers running
TimersBounded == \A c \in Sessions : Len(typingTimers'[c]) <= MaxTimers

NextTyping ==
    \/ \E c \in Sessions : KeyStroke(c) /\ TimersBounded /\ RestIdle
    \/ \E c \in Sessions : EmitterTimerFire(c) /\ RestIdle
    \/ \E c \in Sessions : InputStop(c) /\ RestIdle
    \/ \E c \in Sessions : ListenerTimerFire(c) /\ RestIdle
    \/ \E s \in Sessions, u \in MessageUsernames :
          Typing(s, u) /\ ClientsReceive(emitted') /\ TimersBounded /\ UNCHANGED typingTimeout /\ RestIdle
    \/ \E s \in Sessions, u \in MessageUsernames :
          StopTyping(s, u) /\ ClientsReceive(emitted') /\ UNCHANGED typingTimeout /\ RestIdle
    \/ \E s \in Sessions :
          Disconnect(s) /\ ClientsReceive(emitted') /\ UNCHANGED typingTimeout /\ RestIdle

SpecTyping == InitChat /\ [][NextTyping]_vars

\* a timer that has been started fires once its delay has passed: the event loop
\* of a client runs the callback of every setTimeout that is not cleared
SpecTypingFair ==
    /\ InitChat
    /\ [][NextTyping]_vars
    /\ \A c \in Sessions : WF_vars(ListenerTimerFire(c) /\ RestIdle)
    /\ \A c \in Sessions : WF_vars(EmitterTimerFire(c) /\ RestIdle)

(***************************************************************************)
(* The login of the clients. handleLogin of page.tsx emits join and is     *)
(* logged in at once; the server's answer arrives later, an error only     *)
(* raises an alert. The names are those LoginScreen lets through.          *)
(***************************************************************************)
LoginNames == {Alice, Bob}

\* handleLogin with the connection established: join is emitted, then
\* chatState.username is set and the chat screen is shown
Login(c, u) ==
    /\ clientUser[c] = Undefined
    /\ Join(c, u)
    /\ clientUser' = [clientUser EXCEPT ![c] = u]

\* handleLogout: the socket is disconnected and the chat state is reset
Logout(c) ==
    /\ clientUser[c] # Undefined
    /\ IF conn[c] = "open"
         THEN Disconnect(c)
         ELSE /\ Emit(<< >>)
              /\ UNCHANGED << conn, username, activeUsers, room, tasks, store >>
    /\ clientUser' = [clientUser EXCEPT ![c] = Undefined]

\* the client is connected again, by socket.io's reconnection or by connect() of
\* the next login: the server has a new socket for it, with empty socket.data.
\* The new socket takes the place of the closed one once no continuation of
\* the closed one is left.
Reconnect(c) ==
    /\ conn[c] = "closed"
    /\ \A t \in tasks : t.s # c
    /\ conn' = [conn EXCEPT ![c] = "open"]
    /\ username' = [username EXCEPT ![c] = Undefined]
    /\ Emit(<< >>)
    /\ UNCHANGED << activeUsers, room, tasks, store >>

NextLogin ==
    \/ \E c \in Sessions, u \in LoginNames :
          Login(c, u) /\ Bounded(MaxMsgs, MaxPending) /\ TypingIdle /\ MessagesIdle /\ ElsewhereIdle
    \/ \E c \in Sessions : Logout(c) /\ TypingIdle /\ MessagesIdle /\ ElsewhereIdle
    \/ \E c \in Sessions : Reconnect(c) /\ ClientsIdle
    \/ \E t \in tasks : JoinBroadcast(t) /\ ClientsIdle
    \/ \E t \in tasks : HistoryRead(t) /\ ClientsIdle
    \/ \E t \in tasks : HistoryReturn(t) /\ ClientsIdle
    \/ \E t \in tasks : HistoryFail(t) /\ ClientsIdle
    \/ \E s \in Sessions : Disconnect(s) /\ ClientsIdle

SpecLogin == Init /\ [][NextLogin]_vars

(***************************************************************************)
(* The message lists of the clients: the listener handleMessage appends    *)
(* the message it is sent, handleChatHistory puts the history in the place *)
(* of the list. The lines a client adds for user-joined and user-left are  *)
(* no persisted messages and are left out.                                 *)
(***************************************************************************)
\* the listeners handleMessage and handleChatHistory: the list of client c after ev
MessagesAfter(c, msgs, ev) ==
    IF ev.type = "message" THEN Append(msgs, ev.msg.id)
    ELSE IF ev.type = "chat-history" THEN [i \in 1..Len(ev.hist) |-> ev.hist[i].id]
    ELSE msgs

RECURSIVE MessagesAfterAll(_, _, _)
MessagesAfterAll(c, msgs, evs) ==
    IF evs = << >> THEN msgs
    ELSE MessagesAfterAll(c, MessagesAfter(c, msgs, Head(evs)), Tail(evs))

\* the clients' listeners run on the events ems that the step emits
MessagesReceive(ems) ==
    clientMessages' = [c \in Sessions |-> MessagesAfterAll(c, clientMessages[c], Received(c, ems))]

\* a step of the server and the listeners it sets off
ClientsListen == MessagesReceive(emitted') /\ TypingIdle /\ LoginIdle /\ ElsewhereIdle

NextClient ==
    \/ \E s \in Sessions, u \in JoinPayloads :
          username[s] = Undefined /\ Join(s, u) /\ Bounded(MaxChatMsgs, MaxPending) /\ ClientsListen
    \/ \E t \in tasks : JoinBroadcast(t) /\ ClientsListen
    \/ \E t \in tasks : HistoryRead(t) /\ ClientsListen
    \/ \E t \in tasks : HistoryReturn(t) /\ ClientsListen
    \/ \E t \in tasks : HistoryFail(t) /\ ClientsListen
    \/ \E s \in Sessions, u \in MessageUsernames, m \in MessageBodies :
          Message(s, u, m) /\ Bounded(MaxChatMsgs, MaxPending) /\ ClientsListen
    \/ \E t \in tasks : SaveBegin(t, LatestTimestamp + 1) /\ ClockBounded(MaxChatMsgs) /\ ClientsListen
    \/ \E t \in tasks : SaveInsert(t) /\ ClientsListen
    \/ \E t \in tasks : SaveReturn(t) /\ ClientsListen
    \/ \E t \in tasks : SaveFail(t) /\ ClientsListen
    \/ \E s \in Sessions : Disconnect(s) /\ ClientsListen

SpecClient == InitChat /\ [][NextClient]_vars

(***************************************************************************)
(* Properties.                                                             *)
(***************************************************************************)
Live(s) == conn[s] = "open"
\* the session is connected and a join has bound it to a username
Joined(s) == Live(s) /\ username[s] # Undefined
JoinTasks == { t \in tasks : t.k \in {"join-room", "hist-wait", "hist-done"} }
IsErrorTo(ems, s) == Len(ems) = 1 /\ ems[1].to = {s} /\ ems[1].ev.type = "error"
TakenError(s) == << Emission({s}, ErrorEv("Username is already taken")) >>

\* C1: no two connected sessions are bound to the same username.
C1_UniqueUsernames ==
    \A s, t \in Sessions :
        (s # t /\ Joined(s) /\ Joined(t)) => username[s] # username[t]

\* two sessions are joined, each under its own name, and a message has been stored
C1_Witness ==
    /\ \E s, t \in Sessions : s # t /\ Joined(s) /\ Joined(t)
    /\ Len(store) > 1

\* C2: while the join of one session with a username is under way (its handler is
\* suspended at an await, the session still connected), the join of another
\* session with the same username is rejected with 'Username is already taken'
\* and binds nothing; so of two concurrent joins with one free name the first
\* handler to run wins and the other loses.
C2_ConcurrentJoinOneWinner ==
    [][\A s, t \in Sessions :
          ( /\ s # t
            /\ Joined(s)
            /\ \E k \in JoinTasks : k.s = s /\ k.u = username[s]
            /\ Join(t, username[s]) )
          => ( /\ emitted' = TakenError(t)
               /\ username' = username
               /\ activeUsers' = activeUsers
               /\ room' = room
               /\ tasks' = tasks )]_vars

\* one session's join is still under way, the other has just been refused the name
C2_Witness ==
    \E s, t \in Sessions :
        /\ s # t
        /\ Live(s) /\ Live(t)
        /\ \E k \in JoinTasks : k.s = s /\ k.u = username[s]
        /\ username[t] = Undefined
        /\ emitted = TakenError(t)

\* C3: every username in activeUsers is the bound username of exactly one
\* connected session.
C3_PresenceMatchesSessions ==
    \A u \in activeUsers :
        Cardinality({ s \in Sessions : Joined(s) /\ username[s] = u }) = 1

\* C4: a join from a session that is already joined fails: the session keeps its
\* username, the presence set is unchanged, nothing is broadcast and the session
\* gets one error.
C4_JoinWhileJoinedFails ==
    [][\A s \in Sessions, u \in UsernamePayloads :
          (Joined(s) /\ Join(s, u))
          => ( /\ username' = username
               /\ activeUsers' = activeUsers
               /\ tasks' = tasks
               /\ IsErrorTo(emitted', s) )]_vars

\* length 1..20 over the characters A-Z, a-z, 0-9, '_' and '-'
WellFormed(u) ==
    /\ u # Undefined
    /\ StrLen(u) >= 1 /\ StrLen(u) <= 20
    /\ \A i \in 1..Len(u) : u[i].c \in UsernameChars

WellFormedPayloads == { u \in UsernamePayloads : WellFormed(u) }

\* C5: a join from an unjoined session with a username that is not in the presence
\* set succeeds exactly when the username is well-formed, an ill-formed one gets an
\* error and changes nothing, and no ill-formed username is ever in the presence set;
\* "", 21 characters and "bad name!" are ill-formed, "valid_1-User" is well-formed.
C5_JoinSucceedsIffWellFormed ==
    /\ [](/\ \A u \in activeUsers : WellFormed(u)
          /\ WellFormed(ValidUser) /\ WellFormed(TwentyAs)
          /\ ~WellFormed(<< >>) /\ ~WellFormed(TwentyOneAs) /\ ~WellFormed(BadName))
    /\ [][\A s \in Sessions, u \in UsernamePayloads :
            (username[s] = Undefined /\ u \notin activeUsers /\ Join(s, u))
            => ( /\ (username'[s] = u /\ u \in activeUsers') <=> WellFormed(u)
                 /\ ~WellFormed(u) =>
                       /\ IsErrorTo(emitted', s)
                       /\ activeUsers' = activeUsers
                       /\ username' = username )]_vars

\* "valid_1-User" and the 20-character name are both bound
C5_Witness ==
    \E s, t \in Sessions :
        /\ Joined(s) /\ username[s] = ValidUser
        /\ Joined(t) /\ username[t] = TwentyAs
        /\ {ValidUser, TwentyAs} \subseteq activeUsers

\* C6: a join with a username that is in the presence set fails: the joiner gets
\* 'Username is already taken', nothing else is emitted and nothing changes; and a
\* connected session that is not bound can join with any free well-formed name.
C6_TakenNameRejected ==
    /\ [][\A s \in Sessions, u \in activeUsers :
            Join(s, u)
            => ( /\ emitted' = TakenError(s)
                 /\ UNCHANGED << conn, username, activeUsers, room, tasks, store, recvMsgs >> )]_vars
    /\ [](\A s \in Sessions, v \in WellFormedPayloads :
            (Live(s) /\ username[s] = Undefined /\ v \notin activeUsers)
            => ENABLED (Join(s, v) /\ username'[s] = v))

\* an unbound session has just been refused a name another session holds
C6_Witness ==
    \E s, t \in Sessions :
        /\ s # t
        /\ Live(s) /\ username[s] = Undefined
        /\ Joined(t)
        /\ JoinTasks = {}
        /\ emitted = TakenError(s)

\* C7: when a joined session disconnects, its username leaves the presence set,
\* user-left with that username and then active-users without it go to the other
\* members, and a later join with any free well-formed username, that one
\* included, succeeds.
C7_DisconnectFreesName ==
    [][/\ \A s \in Sessions :
            (Joined(s) /\ Disconnect(s))
            => ( /\ WellFormed(username[s])
                 /\ username[s] \notin activeUsers'
                 /\ s \notin room'
                 /\ emitted' = << Emission(room \ {s}, UserLeftEv(username[s])),
                                  Emission(room \ {s}, ActiveUsersEv(activeUsers')) >> )
       /\ \A t \in Sessions, u \in WellFormedPayloads :
            (u \notin activeUsers /\ Join(t, u))
            => (username'[t] = u /\ u \in activeUsers')]_vars

\* a session has disconnected and another one is now joined under its username
C7_Witness ==
    \E s, t \in Sessions :
        /\ conn[s] = "closed" /\ username[s] # Undefined
        /\ Joined(t) /\ username[t] = username[s]

\* C8: a message event from a session that has no username bound gets one error
\* and starts no save, writes no row and delivers nothing, whatever its payload.
C8_MessageBeforeJoinRejected ==
    [][\A s \in Sessions, u \in MessageUsernames, m \in MessageBodies :
          (username[s] = Undefined /\ Message(s, u, m))
          => ( /\ IsErrorTo(emitted', s)
               /\ UNCHANGED << conn, username, activeUsers, room, tasks, store, recvMsgs >> )]_vars

\* an unjoined session has just been refused a message while another is joined
C8_Witness ==
    \E s, t \in Sessions :
        /\ Live(s) /\ username[s] = Undefined
        /\ Joined(t)
        /\ emitted = << Emission({s}, ErrorEv("Invalid message data")) >>

\* C9: every 'message' event carries a row that is already in the store, with its
\* id and timestamp, and goes to every member of the room, the sender included
\* while it is connected.
C9_PersistThenBroadcast ==
    /\ [](\A i \in 1..Len(emitted) :
            emitted[i].ev.type = "message"
            => ( /\ \E j \in 1..Len(store) : store[j] = emitted[i].ev.msg
                 /\ emitted[i].to = room ))
    /\ [][\A t \in tasks :
            SaveReturn(t)
            => ( /\ \E j \in 1..Len(store) : store[j] = t.row
                 /\ Len(emitted') = 1
                 /\ emitted'[1].ev.type = "message"
                 /\ emitted'[1].ev.msg.id = t.row.id /\ emitted'[1].ev.msg.ts = t.row.ts
                 /\ Live(t.s) => t.s \in emitted'[1].to )]_vars

\* a saved message has just been delivered to two sessions
C9_Witness ==
    /\ Len(emitted) = 1
    /\ emitted[1].ev.type = "message"
    /\ Cardinality(emitted[1].to) >= 2
    /\ emitted[1].ev.msg.id = store[Len(store)].id

\* C10: each recipient gets the 'message' events in the order of the ids the store
\* assigned.
C10_DeliveredInIdOrder ==
    \A s \in Sessions :
        \A i, j \in 1..Len(recvMsgs[s]) :
            i < j => recvMsgs[s][i] < recvMsgs[s][j]

\* C11: the chat-history a joiner is sent is the last min(50, n) rows of the
\* store as it was when the history was read, in the order of insertion, oldest
\* first.
C11_HistoryInStoreOrder ==
    \A i \in 1..Len(emitted) :
        emitted[i].ev.type = "chat-history"
        => \E n \in 1..Len(store) :
              emitted[i].ev.hist = SubSeq(store, n - Min(HistoryLimit, n) + 1, n)

TooLongError(s) == << Emission({s}, ErrorEv("Message too long (max 500 characters)")) >>

\* C12: a send from a joined session under its own name gets the message-too-long
\* error exactly when the trimmed body is longer than 500; a body of trimmed
\* length 1..500 starts a save of the trimmed body, and a rejected send starts no
\* save, writes nothing and delivers nothing.
C12_TooLongIffTrimmedOver500 ==
    [][\A s \in Sessions, m \in SendBodies :
          (Joined(s) /\ Message(s, username[s], m))
          => ( /\ (emitted' = TooLongError(s)) <=> (StrLen(Trim(m)) > 500)
               /\ (StrLen(Trim(m)) > 500)
                     => UNCHANGED << conn, username, activeUsers, room, tasks, store, recvMsgs >>
               /\ (StrLen(Trim(m)) \in 1..500)
                     => \E t \in tasks' \ tasks :
                           t.k = "save-wait" /\ t.s = s /\ t.body = Trim(m) )]_vars

\* C13: a send from a joined session under its own name whose body trims to the
\* empty string gets no error, starts no save, writes nothing and delivers nothing.
C13_BlankSendSilent ==
    [][\A s \in Sessions, m \in SendBodies :
          (Joined(s) /\ StrLen(Trim(m)) = 0 /\ Message(s, username[s], m))
          => ( /\ emitted' = << >>
               /\ UNCHANGED << conn, username, activeUsers, room, tasks, store, recvMsgs >> )]_vars

\* C14: every rejected client action gets exactly one error, sent to the acting
\* session: a join with an ill-formed or taken username or from a session that
\* is already bound; a send from an unbound session or under another username; a
\* send of a body longer than 500; typing or stop-typing from an unbound session
\* or under another username.
C14_RejectedActionOneError ==
    [][\A s \in Sessions :
          /\ \A u \in JoinPayloads :
                ( /\ ~WellFormed(u) \/ u \in activeUsers \/ username[s] # Undefined
                  /\ Join(s, u) )
                => IsErrorTo(emitted', s)
          /\ \A u \in MessageUsernames, m \in MessageBodies :
                ( /\ \/ username[s] = Undefined
                     \/ u # username[s]
                     \/ StrLen(Trim(m)) > 500
                  /\ Message(s, u, m) )
                => IsErrorTo(emitted', s)
          /\ \A u \in MessageUsernames :
                ( /\ username[s] = Undefined \/ u # username[s]
                  /\ Typing(s, u) \/ StopTyping(s, u) )
                => IsErrorTo(emitted', s)]_vars

\* C15: a join that is rejected (ill-formed or taken username) and a send that is
\* rejected (unbound session, another username, blank or over-long body) emit
\* nothing but at most one error to the sender, and leave the presence set, the
\* room, the bindings, the store, the suspended handlers and what every session
\* has been delivered unchanged.
C15_RejectionsToSenderOnly ==
    [][\A s \in Sessions :
          ( \/ \E u \in SendJoinPayloads :
                  /\ ~WellFormed(u) \/ u \in activeUsers
                  /\ Join(s, u)
            \/ \E u \in SendUsernames, m \in SendBodies :
                  /\ \/ username[s] = Undefined
                     \/ u # username[s]
                     \/ StrLen(Trim(m)) = 0
                     \/ StrLen(m) > 500
                  /\ Message(s, u, m) )
          => ( /\ Len(emitted') <= 1
               /\ \A i \in 1..Len(emitted') :
                     emitted'[i].to = {s} /\ emitted'[i].ev.type = "error"
               /\ UNCHANGED << conn, username, activeUsers, room, tasks, store, recvMsgs >> )]_vars

\* with two sessions joined and a message stored, one of them has just been refused
\* an over-long body
C15_Witness ==
    \E s, t \in Sessions :
        /\ s # t /\ Joined(s) /\ Joined(t)
        /\ {s, t} \subseteq room
        /\ Len(store) > 1
        /\ emitted = TooLongError(s)

SaveFailedError(s) == << Emission({s}, ErrorEv("Failed to send message")) >>

\* C16: when db.saveMessage fails, the one event emitted is an error for the
\* sender (delivered if it is still connected), the handler ends without another
\* save, no row is written and no message is delivered for it, the bindings, the
\* presence set and the room are as before; and a joined session can always start
\* another send.
C16_SaveFailureReported ==
    /\ [][\A t \in tasks :
            SaveFail(t)
            => ( /\ emitted' = IF Live(t.s) THEN SaveFailedError(t.s)
                                ELSE << Emission({}, ErrorEv("Failed to send message")) >>
                 /\ tasks' = tasks \ {t}
                 /\ UNCHANGED << conn, username, activeUsers, room, store, recvMsgs >> )]_vars
    /\ [](\A s \in Sessions :
            (Joined(s) /\ \A t \in tasks : ~(t.k = "save-wait" /\ t.s = s))
            => ENABLED ( /\ Message(s, username[s], Hi)
                        /\ \E t \in tasks' \ tasks : t.k = "save-wait" /\ t.s = s ))

\* a sender that is still joined, with another member in the room, has just been
\* told that its save failed, and no save of its is left
C16_Witness ==
    \E s, t \in Sessions :
        /\ s # t /\ Joined(s) /\ Joined(t)
        /\ {s, t} \subseteq room
        /\ emitted = SaveFailedError(s)
        /\ \A k \in tasks : k.s # s

HistoryFailedError(s) == << Emission({s}, ErrorEv("Failed to load chat history")) >>

\* C17: the history of a join is fetched only after user-joined and active-users
\* have been emitted for it; when the fetch fails, the one event emitted is an
\* error for the joiner, no chat-history follows for that join, and nothing is
\* rolled back: a joiner that is still connected stays bound, its name in the
\* presence set, itself in the room.
C17_HistoryFailureKeepsJoin ==
    /\ [][\A t \in tasks :
            HistoryFail(t)
            => ( /\ emitted' = IF Live(t.s) THEN HistoryFailedError(t.s)
                                ELSE << Emission({}, ErrorEv("Failed to load chat history")) >>
                 /\ \A k \in tasks' : ~(k.s = t.s /\ k.u = t.u /\ k.k \in {"hist-wait", "hist-done"})
                 /\ UNCHANGED << conn, username, activeUsers, room, store, recvMsgs >>
                 /\ Live(t.s) => ( /\ username'[t.s] # Undefined
                                   /\ username'[t.s] \in activeUsers'
                                   /\ t.u \in activeUsers'
                                   /\ t.s \in room' ) )]_vars
    /\ [][\A t \in tasks' \ tasks :
            t.k = "hist-wait"
            => ( /\ Len(emitted') = 2
                 /\ emitted'[1].ev = UserJoinedEv(t.u)
                 /\ emitted'[2].ev.type = "active-users" )]_vars

\* a joiner has just been told that its history failed to load; it is joined, in the
\* room with another member, and its join handler has ended
C17_Witness ==
    \E s, t \in Sessions :
        /\ s # t /\ Joined(s) /\ Joined(t)
        /\ {s, t} \subseteq room
        /\ username[s] \in activeUsers
        /\ emitted = HistoryFailedError(s)
        /\ \A k \in tasks : k.s # s

\* C18: a join handler goes through its steps in order: the step that starts it
\* binds the session and adds the name to the presence set and the session to the
\* room; the next one emits user-joined to the members other than the joiner and
\* then active-users, with the joiner's name in it, to every member, the joiner
\* included; only after that is the history read, and chat-history goes to the
\* joiner alone.
C18_JoinEventOrder ==
    /\ [][\A t \in tasks :
            /\ (Live(t.s) /\ JoinBroadcast(t))
               => ( /\ username[t.s] # Undefined /\ t.u \in activeUsers /\ t.s \in room
                    /\ emitted' = << Emission(room \ {t.s}, UserJoinedEv(t.u)),
                                     Emission(room, ActiveUsersEv(activeUsers)) >> )
            /\ (Live(t.s) /\ HistoryReturn(t))
               => emitted' = << Emission({t.s}, ChatHistoryEv(t.hist)) >>]_vars
    /\ [][\A t \in tasks' \ tasks :
            /\ t.k = "join-room"
               => (username'[t.s] = t.u /\ t.u \in activeUsers' /\ t.s \in room' /\ emitted' = << >>)
            /\ t.k = "hist-wait"
               => \E j \in tasks \ tasks' : j.k = "join-room" /\ j.s = t.s /\ j.u = t.u
            /\ t.k = "hist-done"
               => \E j \in tasks \ tasks' : j.k = "hist-wait" /\ j.s = t.s /\ j.u = t.u]_vars

\* the second member's join has just been announced: user-joined to the first
\* member, active-users with both names to both, the history still to be read
C18_Witness ==
    \E s, t \in Sessions :
        /\ s # t /\ Joined(s) /\ Joined(t)
        /\ emitted = << Emission({t}, UserJoinedEv(username[s])),
                        Emission({s, t}, ActiveUsersEv({username[s], username[t]})) >>
        /\ \E k \in tasks : k.k = "hist-wait" /\ k.s = s

JoinedSessions == { s \in Sessions : Joined(s) }

\* C19: while no session has left, every active-users snapshot that a join
\* broadcasts goes to all the sessions that have joined, equals the presence set
\* and holds exactly one username for each of them; and a join that has added a
\* name to the presence set still has its snapshot to broadcast. So the last
\* snapshot after N sessions have joined, in whatever order their handlers ran,
\* has exactly N usernames.
C19_SnapshotAfterJoins ==
    /\ [][\A t \in tasks :
            (JoinBroadcast(t) /\ \A s \in Sessions : Live(s))
            => ( /\ Len(emitted') = 2
                 /\ emitted'[2].ev.type = "active-users"
                 /\ emitted'[2].to = JoinedSessions
                 /\ emitted'[2].ev.users = activeUsers'
                 /\ emitted'[2].ev.users = { username[s] : s \in JoinedSessions }
                 /\ Cardinality(emitted'[2].ev.users) = Cardinality(JoinedSessions) )]_vars
    /\ [][\A u \in activeUsers' \ activeUsers :
            \E t \in tasks' : t.k = "join-room" /\ t.u = u]_vars

\* every session has joined, all the join handlers have broadcast, and the last
\* snapshot went to all of them with one name each
C19_Witness ==
    /\ JoinedSessions = Sessions
    /\ \A t \in tasks : t.k # "join-room"
    /\ Len(emitted) = 2
    /\ emitted[2].ev.type = "active-users"
    /\ emitted[2].to = Sessions
    /\ Cardinality(emitted[2].ev.users) = NumSessions

\* C20: a disconnect leaves the suspended handlers and the store as they are; a
\* save that has begun can still take its id, a save that is done can still
\* return; and when a save returns after its sender has disconnected, the stored
\* row is emitted to the room, that is to every member that remains, each of
\* which is delivered it.
C20_DisconnectKeepsSend ==
    /\ [][\A s \in Sessions :
            Disconnect(s) => (tasks' = tasks /\ store' = store)]_vars
    /\ [][\A t \in tasks :
            (~Live(t.s) /\ SaveReturn(t))
            => ( /\ \E j \in 1..Len(store) : store[j] = t.row
                 /\ t.s \notin room
                 /\ emitted' = << Emission(room, MessageEv(t.row)) >>
                 /\ \A r \in room : recvMsgs'[r] = Append(recvMsgs[r], t.row.id) )]_vars
    /\ [](\A t \in tasks :
            /\ t.k = "save-begun" => ENABLED SaveInsert(t)
            /\ t.k = "save-done" => ENABLED SaveReturn(t))

\* the message of a sender that has disconnected has just been delivered to a
\* member that remains
C20_Witness ==
    \E s, r \in Sessions :
        /\ conn[s] = "closed" /\ Joined(r) /\ r \in room
        /\ Len(emitted) = 1
        /\ emitted[1].ev.type = "message"
        /\ emitted[1].ev.msg.username = username[s]
        /\ emitted[1].to = room
        /\ recvMsgs[r] # << >>
        /\ recvMsgs[r][Len(recvMsgs[r])] = emitted[1].ev.msg.id

\* C21: a typing or stop-typing event is relayed exactly when its session is
\* joined and the payload carries the session's own username; it then goes to
\* every member of the room but the sender; otherwise nothing is emitted. So
\* every relayed event names a joined session and is not delivered to that
\* session.
C21_TypingRelayedToOthers ==
    /\ [][\A s \in Sessions, u \in MessageUsernames :
            /\ (Typing(s, u) /\ Joined(s) /\ u = username[s])
               => emitted' = << Emission(room \ {s}, TypingEv(username[s])) >>
            /\ (StopTyping(s, u) /\ Joined(s) /\ u = username[s])
               => emitted' = << Emission(room \ {s}, StopTypingEv(username[s])) >>
            /\ ((Typing(s, u) \/ StopTyping(s, u)) /\ ~(Joined(s) /\ u = username[s]))
               => emitted' = << >>]_vars
    /\ [](\A i \in 1..Len(emitted) :
            emitted[i].ev.type \in {"typing", "stop-typing"}
            => \E s \in Sessions :
                  /\ Joined(s) /\ username[s] = emitted[i].ev.name
                  /\ s \notin emitted[i].to
                  /\ emitted[i].to = room \ {s})

\* the typing of one member has just been relayed to the other, whose client
\* now shows it
C21_Witness ==
    \E s, r \in Sessions :
        /\ s # r /\ Joined(s) /\ Joined(r)
        /\ emitted = << Emission({r}, TypingEv(username[s])) >>
        /\ username[s] \in typingUsers[r]
        /\ username[s] \notin typingUsers[s]

\* C22: a user that a client shows as typing is unmarked again by that client,
\* whether or not a stop-typing for the user ever arrives: the 3-second timer
\* that the marking started fires and removes the user.
C22_TypingEventuallyCleared ==
    \A c \in Sessions, u \in {Alice, Bob} :
        (u \in typingUsers[c]) ~> (u \notin typingUsers[c])

\* the sender's 1-second timer still runs, so it has sent no stop-typing since
\* its last keystroke, and the recipient's timer has unmarked it
C22_Witness ==
    \E s, r \in Sessions :
        /\ s # r /\ Joined(s) /\ Joined(r)
        /\ typingTimeout[s] = "pending"
        /\ emitted = << >>
        /\ typingTimers[r] = << >>
        /\ username[s] \notin typingUsers[r]

\* C23: when a joined session disconnects, no client shows its user as typing
\* after the disconnect, and no timer for that user is left running.
C23_DisconnectClearsTyping ==
    [][\A s \in Sessions :
          (Disconnect(s) /\ Joined(s))
          => \A c \in Sessions :
                /\ username[s] \notin typingUsers'[c]
                /\ \A i \in 1..Len(typingTimers'[c]) : typingTimers'[c][i] # username[s]]_vars

\* C24: a timer that an earlier typing event for a user started does not unmark
\* the user while the timer of a later typing event for that user still runs.
C24_EarlierTimerKeepsLaterState ==
    [][\A c \in Sessions :
          (/\ ListenerTimerFire(c)
           /\ Head(typingTimers[c]) \in typingUsers[c]
           /\ \E i \in 2..Len(typingTimers[c]) : typingTimers[c][i] = Head(typingTimers[c]))
          => Head(typingTimers[c]) \in typingUsers'[c]]_vars

RoomEventTypes == {"message", "user-joined", "user-left", "active-users", "typing", "stop-typing"}

\* C25: every room event goes only to sessions that are joined when it is
\* emitted: to no connected session that has not joined, and to no session
\* that has disconnected.
C25_RoomEventsToJoinedOnly ==
    \A i \in 1..Len(emitted) :
        emitted[i].ev.type \in RoomEventTypes
        => \A s \in emitted[i].to : conn[s] = "open" /\ username[s] # Undefined

\* a message is broadcast while one session is connected without having joined
\* or has disconnected: it goes to the joined session alone
C25_Witness ==
    \E r, s \in Sessions :
        /\ Joined(r) /\ ~Joined(s)
        /\ Len(emitted) = 1
        /\ emitted[1].ev.type = "message"
        /\ emitted[1].to = {r}

\* C26: the disconnect of a session that has no username changes neither the
\* presence set nor the store and emits nothing; a closed session stays closed
\* and keeps its binding, and no second disconnect of it can run; user-left is
\* emitted only in the step that closes a session, once, for that session's name.
C26_DisconnectTerminal ==
    /\ [][\A s \in Sessions :
            /\ (conn[s] = "open" /\ conn'[s] = "closed" /\ username[s] = Undefined)
               => (activeUsers' = activeUsers /\ store' = store /\ emitted' = << >>)
            /\ conn[s] = "closed" => (conn'[s] = "closed" /\ username'[s] = username[s])]_vars
    /\ [][\A i \in 1..Len(emitted') :
            emitted'[i].ev.type = "user-left"
            => /\ \E s \in Sessions : /\ conn[s] = "open" /\ conn'[s] = "closed"
                                       /\ emitted'[i].ev.name = username[s]
               /\ \A j \in 1..Len(emitted') : emitted'[j].ev.type = "user-left" => j = i]_vars
    /\ [](\A s \in Sessions : conn[s] = "closed" => ~ENABLED Disconnect(s))

\* a session that never joined has disconnected: the joined session is still
\* present and has been sent nothing
C26_Witness ==
    \E s, r \in Sessions :
        /\ conn[s] = "closed" /\ username[s] = Undefined
        /\ Joined(r) /\ activeUsers = {username[r]}
        /\ emitted = << >>

\* C27: every row that a send has written (every row after the welcome row of
\* the schema) has a body of 1 to 500 characters that neither starts nor ends
\* with white space, and room 'general'.
C27_StoredBodiesTrimmed ==
    \A i \in 2..Len(store) :
        LET body == store[i].message IN
        /\ body # << >>
        /\ StrLen(body) >= 1 /\ StrLen(body) <= 500
        /\ body[1].c \notin WhiteSpace
        /\ body[Len(body)].c \notin WhiteSpace
        /\ store[i].room = "general"

\* the padded bodies have been saved, one of 500 characters with its padding:
\* the rows hold them without the white space around them
C27_Witness ==
    /\ \E i \in 2..Len(store) : store[i].message = << Run("h", 2) >>
    /\ \E i \in 2..Len(store) : store[i].message = << Run("x", 498) >>

StoreRows == { store[i] : i \in 1..Len(store) }

\* C28: a save appends one row that holds the username, the body and the room
\* it was called with, the timestamp its INSERT took and an id above every id
\* in the table, and returns that row; rows are never changed afterwards, so
\* ids grow along the table; a history read returns rows of the table as they
\* are, all of them while the table holds no more than the limit.
C28_SaveReadRoundTrip ==
    /\ [][store' # store
          => \E t \in tasks :
                /\ t.k = "save-begun"
                /\ Len(store') = Len(store) + 1
                /\ SubSeq(store', 1, Len(store)) = store
                /\ LET row == store'[Len(store')] IN
                   /\ row.username = t.u /\ row.message = t.body /\ row.room = "general"
                   /\ row.ts = t.row.ts
                   /\ \A i \in 1..Len(store) : store[i].id < row.id
                   /\ \E d \in tasks' : d.k = "save-done" /\ d.s = t.s /\ d.row = row]_vars
    /\ [](\A i, j \in 1..Len(store) : i < j => store[i].id < store[j].id)
    /\ [][\A d \in tasks' \ tasks :
            d.k = "hist-done"
            => /\ { d.hist[i] : i \in 1..Len(d.hist) } = StoreRows
               /\ Len(d.hist) = Len(store)]_vars
    /\ [](\A i \in 1..Len(emitted) :
            emitted[i].ev.type = "chat-history"
            => \A k \in 1..Len(emitted[i].ev.hist) : emitted[i].ev.hist[k] \in StoreRows)

\* a joiner is sent the history after two sends: the welcome row and both rows
\* of the sends, as they are in the table
C28_Witness ==
    /\ Len(store) = 3
    /\ Len(emitted) = 1
    /\ emitted[1].ev.type = "chat-history"
    /\ emitted[1].to # {}
    /\ { emitted[1].ev.hist[k] : k \in 1..Len(emitted[1].ev.hist) } = StoreRows

\* C29: the rows of every bounded read, the history sent at a join and the
\* response of GET /api/messages, are rows of the table, no more than the limit
\* of the read, and ordered oldest first.
C29_ReadsOldestFirst ==
    \A i \in 1..Len(emitted) :
        emitted[i].ev.type \in {"chat-history", "api-messages"}
        => LET rows == emitted[i].ev.hist
               limit == IF emitted[i].ev.type = "chat-history" THEN 50 ELSE 100
           IN  /\ Len(rows) <= limit
               /\ \A k \in 1..Len(rows) : rows[k].room = "general"
               /\ \A a, b \in 1..Len(rows) : a < b => rows[a].ts <= rows[b].ts

\* C30: a connected client whose 1-second timer runs since its last typing
\* event disconnects or gets to send stop-typing for its user; and whenever
\* the timer of a connected client ends, by firing or by being cleared, the
\* stop-typing for the client's user goes out in that step.
C30_StopTypingFollows ==
    /\ \A c \in Sessions :
          (typingTimeout[c] = "pending" /\ conn[c] = "open")
          ~> \/ conn[c] = "closed"
             \/ /\ typingTimeout[c] = "stale"
                /\ \E i \in 1..Len(emitted) :
                      emitted[i].ev.type = "stop-typing" /\ emitted[i].ev.name = username[c]
    /\ [][\A c \in Sessions :
            (typingTimeout[c] = "pending" /\ typingTimeout'[c] # "pending" /\ conn[c] = "open")
            => /\ Len(emitted') = 1
               /\ emitted'[1].ev.type = "stop-typing"
               /\ emitted'[1].ev.name = username[c]
               /\ emitted'[1].to = room \ {c}]_vars

\* the client of one member has sent stop-typing after its typing: the other
\* member has been sent it and no longer shows the user as typing
C30_Witness ==
    \E c, r \in Sessions :
        /\ c # r /\ Joined(c) /\ Joined(r)
        /\ typingTimeout[c] = "stale"
        /\ Len(emitted) = 1
        /\ emitted[1].ev.type = "stop-typing"
        /\ emitted[1].ev.name = username[c]
        /\ emitted[1].to = {r}
        /\ username[c] \notin typingUsers[r]
        /\ typingTimers[r] # << >>

MismatchError == ErrorEv("Username mismatch")

\* C31: a message event that names a user other than the one bound to its
\* session gets the error 'Username mismatch' and starts no save; a save starts
\* only under the name bound to its session at that moment, keeps that name
\* until its row is written, and only rows of the table are broadcast.
C31_NoSpeakingAsAnother ==
    /\ [][\A s \in Sessions, u \in MessageUsernames, m \in MessageBodies :
            (/\ Message(s, u, m)
             /\ ~(u = Undefined \/ u = << >>) /\ ~(m = << >>)
             /\ ~(username[s] = Undefined \/ username[s] = << >>)
             /\ u # username[s])
            => /\ emitted' = << Emission({s}, MismatchError) >>
               /\ tasks' = tasks /\ store' = store]_vars
    /\ [][\A d \in tasks' \ tasks :
            /\ d.k = "save-wait" => (conn[d.s] = "open" /\ d.u = username[d.s])
            /\ d.k \in {"save-begun", "save-done"}
               => \E t \in tasks \ tasks' :
                     /\ t.k \in {"save-wait", "save-begun"}
                     /\ t.s = d.s /\ t.u = d.u /\ t.body = d.body
                     /\ d.row.username = t.u]_vars
    /\ [][store' # store
          => \E t \in tasks \ tasks' :
                t.k = "save-begun" /\ store'[Len(store')].username = t.u]_vars
    /\ [](\A i \in 1..Len(emitted) :
            emitted[i].ev.type = "message"
            => \E k \in 1..Len(store) : store[k] = emitted[i].ev.msg)

\* a joined session has sent a message under the other user's name: it has
\* been sent the error, and nothing is being saved
C31_Witness ==
    \E s, r \in Sessions :
        /\ s # r /\ Joined(s) /\ Joined(r) /\ username[s] # username[r]
        /\ emitted = << Emission({s}, MismatchError) >>
        /\ tasks = {}
        /\ Len(store) = 1

\* C32: a client that is connected and logged in as a user has its session
\* bound to that user on the server, and the user is in the presence set.
C32_LoggedInMatchesServer ==
    \A c \in Sessions :
        (clientUser[c] # Undefined /\ conn[c] = "open")
        => (username[c] = clientUser[c] /\ clientUser[c] \in activeUsers)

\* the ids in the message list of client c
ListedIds(msgs) == { msgs[i] : i \in 1..Len(msgs) }

\* C33: no message that a client has in its list is gone from the list when
\* the client has applied a chat-history, and no message is in the list of a
\* client twice.
C33_HistoryKeepsLiveMessages ==
    /\ [][\A c \in Sessions :
            (\E i \in 1..Len(emitted') :
                emitted'[i].ev.type = "chat-history" /\ c \in emitted'[i].to)
            => ListedIds(clientMessages[c]) \subseteq ListedIds(clientMessages'[c])]_vars
    /\ [](\A c \in Sessions :
            \A i, j \in 1..Len(clientMessages[c]) :
                i # j => clientMessages[c][i] # clientMessages[c][j])

(***************************************************************************)
(* Start and shutdown of the server process (index.ts, startServer and the *)
(* handlers of SIGTERM and SIGINT).  proc.phase is the position of         *)
(* startServer, proc.http the state of the HTTP server, proc.closeCbs the  *)
(* callbacks given to server.close() that wait for its 'close' event,      *)
(* proc.dbClose the state of pool.end().                                   *)
(***************************************************************************)
SignalNames == {"SIGTERM", "SIGINT"}

Running == proc.exit = "running"

\* await db.connect() returns: startServer goes on to db.initializeTables()
ConnectOk ==
    /\ Running /\ proc.phase = "connecting" /\ proc.dbClose # "ended"
    /\ proc' = [proc EXCEPT !.phase = "initializing", !.connected = TRUE]
    /\ UNCHANGED << hook, dbCalls, poolOut >>

\* await db.connect() throws: the catch block calls process.exit(1)
ConnectFail ==
    /\ Running /\ proc.phase = "connecting"
    /\ proc' = [proc EXCEPT !.phase = "failed", !.exit = "1"]
    /\ UNCHANGED << hook, dbCalls, poolOut >>

\* await db.initializeTables() returns: server.listen()
InitOk ==
    /\ Running /\ proc.phase = "initializing" /\ proc.dbClose # "ended"
    /\ proc' = [proc EXCEPT !.phase = "started", !.initialized = TRUE, !.http = "listening"]
    /\ UNCHANGED << hook, dbCalls, poolOut >>

\* await db.initializeTables() throws: the catch block calls process.exit(1)
InitFail ==
    /\ Running /\ proc.phase = "initializing"
    /\ proc' = [proc EXCEPT !.phase = "failed", !.exit = "1"]
    /\ UNCHANGED << hook, dbCalls, poolOut >>

\* a client opens a connection to the listening server (proc.accepted counts
\* the connections of the run)
HttpConnect ==
    /\ Running /\ proc.http = "listening" /\ proc.accepted < MaxConns
    /\ proc' = [proc EXCEPT !.conns = @ + 1, !.accepted = @ + 1]
    /\ UNCHANGED << hook, dbCalls, poolOut >>

\* a connection to the server ends
HttpDisconnect ==
    /\ Running /\ proc.conns > 0
    /\ proc' = [proc EXCEPT !.conns = @ - 1]
    /\ UNCHANGED << hook, dbCalls, poolOut >>

\* the handler of a signal with db.close() before server.close()
SignalClosesPoolFirst(sig) ==
    /\ Running /\ Len(proc.signals) < MaxSignals
    /\ proc' = [proc EXCEPT !.signals = Append(@, [name |-> sig, at |-> proc.phase]),
                            !.closeCbs = @ + 1,
                            !.dbClose = IF @ = "none" THEN "ending" ELSE @,
                            !.http = IF @ = "listening" THEN "closing" ELSE @]
    /\ UNCHANGED << hook, dbCalls, poolOut >>

\* process.on('SIGTERM') and process.on('SIGINT'): server.close(callback).
\* A listening server stops listening; the callback waits for 'close'.
\* proc.signals keeps the signal and the position of startServer it came at.
Signal(sig) ==
    /\ Running /\ Len(proc.signals) < MaxSignals
    /\ proc' = [proc EXCEPT !.signals = Append(@, [name |-> sig, at |-> proc.phase]),
                            !.closeCbs = @ + 1,
                            !.http = IF @ = "listening" THEN "closing" ELSE @]
    /\ UNCHANGED << hook, dbCalls, poolOut >>

\* the server emits 'close': it does not listen and has no connection left.
\* The callbacks of server.close() run up to their await: db.close() calls
\* pool.end().
ServerClosed ==
    /\ Running /\ proc.closeCbs > 0 /\ proc.conns = 0 /\ proc.http # "listening"
    /\ proc' = [proc EXCEPT !.http = IF @ = "closing" THEN "closed" ELSE @,
                            !.closeEvents = @ + 1,
                            !.closeCbs = 0,
                            !.dbClose = IF @ = "none" THEN "ending" ELSE @]
    /\ UNCHANGED << hook, dbCalls, poolOut >>

\* pool.end() resolves: the callback goes on to process.exit(0)
PoolEnded ==
    /\ Running /\ proc.dbClose = "ending"
    /\ proc' = [proc EXCEPT !.dbClose = "ended", !.exit = "0"]
    /\ UNCHANGED << hook, dbCalls, poolOut >>

InitBoot ==
    /\ conn = [s \in Sessions |-> "closed"]
    /\ username = [s \in Sessions |-> Undefined]
    /\ activeUsers = {}
    /\ room = {}
    /\ tasks = {}
    /\ store = << >>
    /\ recvMsgs = [s \in Sessions |-> << >>]
    /\ emitted = << >>
    /\ ClientsInit
    /\ hook = HookInit
    /\ proc = ProcStart
    /\ dbCalls = [i \in Calls |-> DbCallIdle]
    /\ poolOut = [p \in Servers |-> 0]

NextBoot ==
    \/ ConnectOk /\ ChatIdle /\ TypingIdle /\ LoginIdle /\ MessagesIdle
    \/ ConnectFail /\ ChatIdle /\ TypingIdle /\ LoginIdle /\ MessagesIdle
    \/ InitOk /\ ChatIdle /\ TypingIdle /\ LoginIdle /\ MessagesIdle
    \/ InitFail /\ ChatIdle /\ TypingIdle /\ LoginIdle /\ MessagesIdle
    \/ HttpConnect /\ ChatIdle /\ TypingIdle /\ LoginIdle /\ MessagesIdle
    \/ HttpDisconnect /\ ChatIdle /\ TypingIdle /\ LoginIdle /\ MessagesIdle
    \/ \E sig \in SignalNames :
          Signal(sig) /\ ChatIdle /\ TypingIdle /\ LoginIdle /\ MessagesIdle
    \/ ServerClosed /\ ChatIdle /\ TypingIdle /\ LoginIdle /\ MessagesIdle
    \/ PoolEnded /\ ChatIdle /\ TypingIdle /\ LoginIdle /\ MessagesIdle

SpecBoot == InitBoot /\ [][NextBoot]_vars

C34_WitnessFailure ==
    /\ proc.connected /\ ~proc.initialized /\ proc.exit = "1" /\ proc.http = "idle"

(***************************************************************************)
(* One instance of the hook useSocket (useSocket.ts).  hook.ref is         *)
(* socketRef.current (0 for null), hook.socks[i] the state of the i-th     *)
(* socket that io() has created: "unborn", "connecting" (the first attempt *)
(* or a reconnection is under way), "connected", or "closed".              *)
(* hook.sent[i] counts the events sent on socket i, hook.emits the calls   *)
(* of emit(), hook.status is connectionStatus.status.                      *)
(***************************************************************************)
LiveSocket(i) == hook.socks[i] \in {"connecting", "connected"}

LiveSockets == { i \in Sockets : LiveSocket(i) }

\* socketRef.current?.connected
RefConnected == hook.ref # 0 /\ hook.socks[hook.ref] = "connected"

\* connect() with a server configuration: the current socket if it is
\* connected; otherwise io(serverUrl, {forceNew: true, autoConnect: true})
\* and socketRef.current = socket
HookConnect ==
    /\ IF RefConnected
       THEN hook' = hook
       ELSE \E i \in Sockets :
               /\ hook.socks[i] = "unborn"
               /\ \A j \in Sockets : j < i => hook.socks[j] # "unborn"
               /\ hook' = [hook EXCEPT !.ref = i, !.socks[i] = "connecting",
                                       !.status = "connecting"]
    /\ UNCHANGED << proc, dbCalls, poolOut >>

\* socket.on('connect'), socket.io.on('reconnect')
SocketConnected(i) ==
    /\ hook.socks[i] = "connecting"
    /\ hook' = [hook EXCEPT !.socks[i] = "connected", !.status = "connected"]
    /\ UNCHANGED << proc, dbCalls, poolOut >>

\* socket.on('disconnect') with the transport lost: socket.io reconnects
SocketDropped(i) ==
    /\ hook.socks[i] = "connected"
    /\ hook' = [hook EXCEPT !.socks[i] = "connecting", !.status = "connecting"]
    /\ UNCHANGED << proc, dbCalls, poolOut >>

\* socket.io.on('reconnect_failed'): the attempts are used up
SocketGaveUp(i) ==
    /\ hook.socks[i] = "connecting"
    /\ hook' = [hook EXCEPT !.socks[i] = "closed", !.status = "error"]
    /\ UNCHANGED << proc, dbCalls, poolOut >>

\* disconnect(): socketRef.current.disconnect(); socketRef.current = null
HookDisconnect ==
    /\ IF hook.ref # 0
       THEN hook' = [hook EXCEPT !.socks[hook.ref] = "closed", !.ref = 0,
                                 !.status = "disconnected"]
       ELSE hook' = hook
    /\ UNCHANGED << proc, dbCalls, poolOut >>

\* emit(event, ...args): sent only if socketRef.current?.connected
HookEmit ==
    /\ hook.emits < MaxEmits
    /\ IF RefConnected
       THEN hook' = [hook EXCEPT !.sent[hook.ref] = @ + 1, !.emits = @ + 1]
       ELSE hook' = [hook EXCEPT !.emits = @ + 1]
    /\ UNCHANGED << proc, dbCalls, poolOut >>

NextHook ==
    \/ HookConnect /\ ChatIdle /\ TypingIdle /\ LoginIdle /\ MessagesIdle
    \/ \E i \in Sockets :
          SocketConnected(i) /\ ChatIdle /\ TypingIdle /\ LoginIdle /\ MessagesIdle
    \/ \E i \in Sockets :
          SocketDropped(i) /\ ChatIdle /\ TypingIdle /\ LoginIdle /\ MessagesIdle
    \/ \E i \in Sockets :
          SocketGaveUp(i) /\ ChatIdle /\ TypingIdle /\ LoginIdle /\ MessagesIdle
    \/ HookDisconnect /\ ChatIdle /\ TypingIdle /\ LoginIdle /\ MessagesIdle
    \/ HookEmit /\ ChatIdle /\ TypingIdle /\ LoginIdle /\ MessagesIdle

SpecHook == Init /\ [][NextHook]_vars

\* C35: at no time are two sockets of the hook connecting or connected, and
\* connect() leaves no live socket behind when it puts another one in
\* socketRef.
C35_AtMostOneLiveSocket ==
    /\ [](Cardinality(LiveSockets) <= 1)
    /\ [][(hook'.ref # hook.ref /\ hook.ref # 0) => hook'.socks[hook.ref] = "closed"]_vars

\* an event is sent only on the connected socket of socketRef, and a call of
\* emit() with no connected socket sends nothing
EmitOnlyConnected ==
    [][hook'.sent # hook.sent
       => (/\ RefConnected
           /\ hook'.sent = [hook.sent EXCEPT ![hook.ref] = @ + 1])]_vars

\* connect() with a connected socket creates none
ConnectKeepsConnected ==
    [][RefConnected /\ hook'.ref # 0 => hook'.ref = hook.ref]_vars

(***************************************************************************)
(* The methods of Database that take a client from the pool                *)
(* (database.ts).  Each server process has its own pool; all of them use   *)
(* the same database.  dbCalls[i].pc is the position of the call:          *)
(* "connecting" (await pool.connect()), "schema" (the CREATE statements of *)
(* initializeTables, .left of them to go), "check" and "insert" (its       *)
(* welcome message), "query" (the one query of the other methods), "done". *)
(***************************************************************************)
PoolMax == 20

DbMethods == {"initializeTables", "saveMessage", "getChatHistory", "getRecentMessages",
              "getUrlMetadata", "saveUrlMetadata"}

\* the CREATE TABLE and CREATE INDEX statements of initializeTables
SchemaStatements == 6

\* the text of the welcome row of init.sql
WelcomeSql == << Run("W", 1), Run("!", 1) >>

\* username = 'System' AND message LIKE '%Welcome to the Docker Bootcamp%'
MatchesWelcome(row) == row.username = System /\ row.message \in {Welcome, WelcomeSql}

WelcomeRows == { k \in 1..Len(store) : MatchesWelcome(store[k]) }

\* the id column is SERIAL
DbNextId == IF store = << >> THEN 1 ELSE store[Len(store)].id + 1

\* the positions at which a call holds a client of the pool
Holding == {"schema", "check", "insert", "query"}

\* a method is called by server process p: initializeTables by startServer
\* before the server listens, the others by the handlers of a listening server
DbCall(i, p, m) ==
    /\ dbCalls[i].pc = "idle"
    /\ \A j \in Calls \ {i} :
          (dbCalls[j].owner = p /\ dbCalls[j].pc # "idle")
          => (m # "initializeTables" /\ dbCalls[j].method # "initializeTables")
    /\ dbCalls' = [dbCalls EXCEPT ![i] = [DbCallIdle EXCEPT !.method = m, !.owner = p,
                                                            !.pc = "connecting"]]
    /\ UNCHANGED << store, poolOut >>

\* await this.pool.connect() returns a client
DbAcquire(i) ==
    LET c == dbCalls[i] IN
    /\ c.pc = "connecting" /\ poolOut[c.owner] < PoolMax
    /\ dbCalls' = [dbCalls EXCEPT ![i].acquired = @ + 1,
                                  ![i].pc = IF c.method = "initializeTables"
                                            THEN "schema" ELSE "query",
                                  ![i].left = IF c.method = "initializeTables"
                                              THEN SchemaStatements ELSE 0]
    /\ poolOut' = [poolOut EXCEPT ![c.owner] = @ + 1]
    /\ UNCHANGED store

\* await this.pool.connect() throws (connectionTimeoutMillis, no server): the
\* call is before its try block, the error goes to the caller
DbAcquireFail(i) ==
    /\ dbCalls[i].pc = "connecting"
    /\ dbCalls' = [dbCalls EXCEPT ![i].pc = "done", ![i].at = "connecting",
                                  ![i].outcome = "thrown"]
    /\ UNCHANGED << store, poolOut >>

\* the call ends: finally { client.release() }
Finished(i, outcome) ==
    /\ dbCalls' = [dbCalls EXCEPT ![i].pc = "done", ![i].at = dbCalls[i].pc,
                                  ![i].outcome = outcome, ![i].released = @ + 1]
    /\ poolOut' = [poolOut EXCEPT ![dbCalls[i].owner] = @ - 1]

\* a CREATE ... IF NOT EXISTS statement of initializeTables returns
DbSchemaOk(i) ==
    /\ dbCalls[i].pc = "schema"
    /\ dbCalls' = [dbCalls EXCEPT ![i].left = @ - 1,
                                  ![i].pc = IF dbCalls[i].left > 1 THEN "schema" ELSE "check"]
    /\ UNCHANGED << store, poolOut >>

\* welcomeCheck returns: with a matching row initializeTables is done,
\* with none it goes on to the INSERT
DbWelcomeCheck(i) ==
    /\ dbCalls[i].pc = "check"
    /\ IF WelcomeRows # {}
       THEN Finished(i, "returned")
       ELSE /\ dbCalls' = [dbCalls EXCEPT ![i].pc = "insert"]
            /\ UNCHANGED poolOut
    /\ UNCHANGED store

\* the INSERT of the welcome message returns
DbWelcomeInsert(i) ==
    /\ dbCalls[i].pc = "insert" /\ Len(store) < MaxDbRows
    /\ store' = Append(store, Row(DbNextId, System, Welcome, 0))
    /\ Finished(i, "returned")

\* the query of saveMessage, getChatHistory, getRecentMessages, getUrlMetadata
\* or saveUrlMetadata returns
DbQueryOk(i) ==
    /\ dbCalls[i].pc = "query"
    /\ IF dbCalls[i].method = "saveMessage"
       THEN /\ Len(store) < MaxDbRows
            /\ store' = Append(store, Row(DbNextId, Alice, Hi, 0))
       ELSE UNCHANGED store
    /\ Finished(i, "returned")

\* a query that throws with the client kept: release() only on the way out of
\* the try block
DbQueryFailLeaks(i) ==
    /\ dbCalls[i].pc \in Holding
    /\ dbCalls' = [dbCalls EXCEPT ![i].pc = "done", ![i].at = dbCalls[i].pc,
                                  ![i].outcome = "thrown"]
    /\ UNCHANGED << store, poolOut >>

\* a query throws: catch (error) { throw error } finally { client.release() }
DbQueryFail(i) ==
    /\ dbCalls[i].pc \in Holding
    /\ Finished(i, "thrown")
    /\ UNCHANGED store

\* the caller has the result or the error of the call
DbReturn(i) ==
    /\ dbCalls[i].pc = "done"
    /\ dbCalls' = [dbCalls EXCEPT ![i] = DbCallIdle]
    /\ UNCHANGED << store, poolOut >>

\* a step of a call leaves all but the table, the calls and the pools alone
DbFrame ==
    UNCHANGED << conn, username, activeUsers, room, tasks, recvMsgs, emitted,
                 typingUsers, typingTimers, typingTimeout, clientUser, clientMessages,
                 hook, proc >>

\* a database that init.sql has set up, or an empty one
InitDb ==
    /\ conn = [s \in Sessions |-> "open"]
    /\ username = [s \in Sessions |-> Undefined]
    /\ activeUsers = {}
    /\ room = {}
    /\ tasks = {}
    /\ store \in { << >>, << Row(1, System, WelcomeSql, 0) >> }
    /\ recvMsgs = [s \in Sessions |-> << >>]
    /\ emitted = << >>
    /\ ClientsInit
    /\ ElsewhereInit

NextDb ==
    \/ \E i \in Calls, p \in Servers, m \in DbMethods : DbCall(i, p, m) /\ DbFrame
    \/ \E i \in Calls : DbAcquire(i) /\ DbFrame
    \/ \E i \in Calls : DbAcquireFail(i) /\ DbFrame
    \/ \E i \in Calls : DbSchemaOk(i) /\ DbFrame
    \/ \E i \in Calls : DbWelcomeCheck(i) /\ DbFrame
    \/ \E i \in Calls : DbWelcomeInsert(i) /\ DbFrame
    \/ \E i \in Calls : DbQueryOk(i) /\ DbFrame
    \/ \E i \in Calls : DbQueryFail(i) /\ DbFrame
    \/ \E i \in Calls : DbReturn(i) /\ DbFrame

SpecDb == InitDb /\ [][NextDb]_vars

\* C36: a call holds one client of its pool from pool.connect() to its end
\* and none after; a call that ended released as often as it acquired, once
\* if its query returned or threw and never if pool.connect() threw; a call
\* whose query or pool.connect() threw ends with the error at its caller; with
\* no call under way no client of any pool is checked out.
C36_ClientReleasedOnce ==
    /\ [](\A p \in Servers :
            poolOut[p] = Cardinality({ i \in Calls : dbCalls[i].owner = p
                                                     /\ dbCalls[i].pc \in Holding }))
    /\ [](\A i \in Calls :
            /\ dbCalls[i].pc \in Holding
               => (dbCalls[i].acquired = 1 /\ dbCalls[i].released = 0)
            /\ dbCalls[i].pc = "done"
               => /\ dbCalls[i].released = dbCalls[i].acquired
                  /\ dbCalls[i].acquired = (IF dbCalls[i].at = "connecting" THEN 0 ELSE 1)
                  /\ dbCalls[i].outcome \in {"returned", "thrown"}
                  /\ dbCalls[i].at \in {"connecting", "schema"} => dbCalls[i].outcome = "thrown")
    /\ []((\A i \in Calls : dbCalls[i].pc \in {"idle", "done"})
          => \A p \in Servers : poolOut[p] = 0)
    /\ [][\A i \in Calls :
            (dbCalls'[i].pc = "done" /\ dbCalls[i].pc \in Holding
             /\ dbCalls'[i].outcome = "thrown")
            => (store' = store /\ poolOut'[dbCalls[i].owner] = poolOut[dbCalls[i].owner] - 1)]_vars

\* two calls of one server have ended, one with its result and one with the
\* error of its query: both have released their client, the pool is whole
C36_Witness ==
    /\ \A i \in Calls : dbCalls[i].pc = "done" /\ dbCalls[i].owner = 1
    /\ \E i, j \in Calls :
          /\ dbCalls[i].outcome = "returned" /\ dbCalls[i].method = "saveMessage"
          /\ dbCalls[j].outcome = "thrown" /\ dbCalls[j].at = "query"
          /\ dbCalls[j].released = 1
    /\ poolOut[1] = 0

\* C37: the table holds at most one row that matches the welcome check.
C37_AtMostOneWelcome == Cardinality(WelcomeRows) <= 1

\* on a table that init.sql has set up, initializeTables inserts no welcome row
WelcomeOnceAfterInitSql ==
    (store # << >> /\ store[1].message = WelcomeSql) => Cardinality(WelcomeRows) = 1

\* a welcome row is inserted only by a call of initializeTables whose check has
\* found none
WelcomeInsertAfterCheck ==
    [][Cardinality(WelcomeRows') > Cardinality(WelcomeRows)
       => \E i \in Calls : dbCalls[i].method = "initializeTables" /\ dbCalls[i].pc = "insert"
                           /\ dbCalls'[i].pc = "done"]_vars

====
